---- MODULE Spec2Model ----
(***************************************************************************)
(* Model of dtex's goal-driven streaming frame (src/src/source.rs):        *)
(* FrameSource (consumer side), the "streamer" worker thread, the shared   *)
(* StreamingState (atomic goal + mutex-guarded Pending buffer) and the     *)
(* DataFrame store the chunks are drained into.                            *)
(*                                                                         *)
(* Threads: the consumer (tick / goal / drop of the FrameSource) and the   *)
(* worker.  Each worker step is one access to shared state (atomic load,   *)
(* Arc::strong_count, a mutex-protected update, park) or one native call.  *)
(***************************************************************************)
EXTENDS Integers, Sequences, FiniteSets, TLC

\* ------------------------------------------------------------------ bounds
NChunks == 3            \* longest source stream, in chunks
ChunkRows == 2          \* rows of a full chunk (the engine's vector size, b)

MaxGoal == 7             \* largest goal the consumer asks for (above NChunks * ChunkRows)
Goals == 0..MaxGoal

VARIABLES
    \* the source behind the Chunks cursor
    len,            \* number of chunks the query yields
    lastRows,       \* rows of the last chunk (the others hold ChunkRows)
    errAt,          \* 0, or the 1-based call at which next() reports an error
    pos,            \* chunks the cursor has yielded so far (preload included)
    \* FrameSource
    frame,          \* "Streaming" | "Full" | "Error"
    ferror,         \* FrameSource::Error.error
    df,             \* the visible store
    is_loading,
    \* StreamingState
    goal,           \* AtomicUsize
    pending,        \* Mutex<Pending>: [batches, full, error]
    strong_count,   \* Arc<StreamingState> strong references
    \* threads
    token,          \* park token of the streamer thread
    waker,          \* park token of the orchestrator's task_listener thread
    wpc,            \* worker position
    loaded,         \* worker local
    buff,           \* worker local
    seen,           \* the goal value the worker's loop condition last loaded
    cpc,            \* consumer: "live" | "drop_glue" | "dropped"
    \* observation (history) variables
    fetches,        \* chunks.next() calls started by the worker
    afterRel,       \* of which started after the consumer's Arc was released
    lastReq,        \* argument of the latest goal() call (-1: none yet)
    allSame,        \* every goal() call so far had the same argument
    nReq,           \* goal() calls so far, counted up to 2
    mono,           \* the values stored in state.goal never decreased
    mutex,          \* who holds the guard of state.pending: "free", "worker"
    \* Loader and the one-shot Task of event.rs
    lkind,          \* Kind of the source: "Eager" | "File" | "Sql"
    lfull,          \* Loader::full (TRUE) or Loader::streaming (FALSE)
    lfault,         \* what goes wrong in the task's closure, or "none"
    lchunks,        \* chunks the query's result holds
    ld,             \* "New" | "Pending" | "Finished" | "Dropped"
    ldSrc,          \* the Option<FrameSource> of Loader::Finished
    lchan,          \* the oneshot channel of the task
    tpc,            \* position of the task's thread
    tres,           \* the closure's result, held by the task's thread
    lwake,          \* park token of the task_listener thread
    lret,           \* what the latest Loader::tick returned
    \* observation (history) variables of the Loader
    nThreads,       \* threads spawned by the Loader's task
    nCon,           \* connections opened
    nNext,          \* chunks.next() calls made by the closure
    nStream,        \* FrameSource::streaming calls (frame + worker created)
    nTicks,         \* Loader::tick calls, counted up to 2
    nOut,           \* Loader::tick calls that returned Ok(Some(_)) or Err(_)
    afterOut,       \* Loader::tick calls after the first such call, up to 2
    \* Task / Ctx of task.rs (Runner::task)
    xcount,         \* Arc::strong_count of Inner
    xhandle,        \* Task.inner is Some
    xtoken,         \* park token of the task's worker thread
    kwake,          \* park token of the consumer's wake thread (Runner.0)
    xmutex,         \* holder of Inner.lock: "free" | "worker" | "consumer"
    xresult,        \* the shared result T: updates not yet taken
    xpc,            \* position of the worker closure
    kpc,            \* position of the consumer
    lateFalse,      \* canceled() returned false after the drop's unpark
    \* DuckTask of task.rs (Runner::duckdb)
    dchan,          \* the oneshot channel
    ddone,          \* the done flag (AtomicBool)
    dpc,            \* position of the worker thread
    dres,           \* result of the task body
    dk,             \* "live" | "dropped": the consumer's DuckTask
    dgot,           \* a tick() has taken the result out of the channel
    dret,           \* what the latest DuckTask::tick returned
    dtickNo,        \* parity of the number of tick() calls
    dwake,          \* park token of the wake thread
    nInterrupt,     \* ctx.interrupt() calls
    dAtDrop,        \* worker position when the DuckTask was dropped
    \* DataFrame stores: two handles over Arc<DataFrameImpl>
    sval,           \* handle -> the DataFrameImpl it points to, or NoStore
    sarc,           \* handle -> identity of its Arc
    spanic,          \* an assert_eq! of push has failed
    \* DataFrame::iter
    idf,            \* the store iterated
    iidx,           \* column index of the latest iter call
    iskip,          \* skip of the latest iter call
    iout,            \* values the latest iter call yields
    npc,            \* position of the thread that uses the Connection
    nop,            \* the Connection method called: "execute", "frame", "chunks"
    nfault,         \* the native call that fails in this run, or "none"
    nlen,           \* number of chunks the query's result holds
    nh,             \* per kind of native handle: how many acquired, how many released
    ncon,           \* per Connection value: "none", "open", "disconnected", "dropped"
    ndb,            \* the DB behind Arc<DB>: strong count, opens, closes
    ncur,           \* the Chunks cursor: state, chunks fetched, used after disconnect
    nreported,      \* last signal the pending result reported to a drive step
    nret,            \* what the method returned: "none", "ok", "err", "panic"
    etoken,         \* park token of the task_listener thread
    elpc,           \* task_listener: "park" or "send"
    echan,          \* the events queued in the bounded event channel
    epub,           \* how many results the background task has published
    eiter,          \* the result the background task is working on
    ewstep,         \* its step within that iteration (3: it has returned)
    ewakes,         \* the result that preceded the latest wake
    ewoken,         \* a wake happened and no offer has followed it yet
    ecpc,           \* consumer loop: "recv" or "tick"
    eneed,          \* what the event just received stands for
    eseen,          \* how many results the latest tick saw
    edropped,        \* an offer of Event::Task was dropped
    zcols,          \* Sizer.cols: per column its SizeStat and Constraint
    zfit,           \* Sizer.fit_content
    zlast,          \* what fit last returned since the last cmd/toggle/reset, or -1
    zret,            \* what the latest fit or fill returned
    ycols,          \* src/sizer.rs Sizer.cols: (content, header, constraint) per column
    yfit,           \* src/sizer.rs Sizer.fit_content
    ypanic,          \* a call on the src/sizer.rs Sizer panicked
    pN,             \* the capacity N of History<T, N>
    phist,          \* History.buf, most recent first
    ppos,           \* Prompt.pos: -1 for None, else the index
    pbuf,           \* Prompt.buffer: the line being edited
    pins,           \* its insertion point
    pbefore,        \* Prompt.pos before the latest command when that was a Prev that moved it, else -2
    ppanic,          \* History::get was called with an index out of bounds
    gcols,          \* Projection.cols: the visible columns, by offset
    gnb,            \* Projection.nb_col
    c_col,          \* Nav: cursor column (an offset into the visible columns)
    o_col,          \* Nav: offset of the first column in view
    m_col,          \* Nav: largest column offset
    v_col,          \* Nav: columns handed out by the latest col_iter
    c_row,          \* Nav: cursor row
    o_row,          \* Nav: first row in view
    m_row,          \* Nav: largest row
    v_row,          \* Nav: rows in view
    gstate,         \* FrameGrid.state: "Normal", "Size", "Projection"
    gret,           \* what the latest row_offset returned
    gidx,           \* the column index of the latest Sizer::cmd, -1 before one
    gpanic          \* the grid panicked

streamVars == << len, lastRows, errAt, pos, frame, ferror, df, is_loading, goal,
           pending, strong_count, token, waker, wpc, loaded, buff, seen, cpc,
           fetches, afterRel, lastReq, allSame, nReq, mono, mutex >>

loaderVars == << lkind, lfull, lfault, lchunks, ld, ldSrc, lchan, tpc, tres,
                 lwake, lret, nThreads, nCon, nNext, nStream, nTicks, nOut,
                 afterOut >>

taskVars == << xcount, xhandle, xtoken, kwake, xmutex, xresult, xpc, kpc,
               lateFalse >>

duckVars == << dchan, ddone, dpc, dres, dk, dgot, dret, dtickNo, dwake,
               nInterrupt, dAtDrop >>

storeVars == << sval, sarc, spanic >>

iterVars == << idf, iidx, iskip, iout >>

nativeVars == << npc, nop, nfault, nlen, nh, ncon, ndb, ncur, nreported, nret >>

eventVars == << etoken, elpc, echan, epub, eiter, ewstep, ewakes, ewoken, ecpc, eneed, eseen, edropped >>

sizerVars == << zcols, zfit, zlast, zret >>

flatVars == << ycols, yfit, ypanic >>

promptVars == << pN, phist, ppos, pbuf, pins, pbefore, ppanic >>

gridVars == << gcols, gnb, c_col, o_col, m_col, v_col, c_row, o_row, m_row, v_row, gstate, gret, gidx, gpanic >>

vars == << streamVars, loaderVars, taskVars, duckVars, storeVars,
        iterVars,
        nativeVars,
        eventVars,
        sizerVars,
        flatVars,
        promptVars,
        gridVars >>

\* what no step of the streaming frame changes: the source behind the cursor
\* and the state of the other components
srcOnly == << len, lastRows, errAt, loaderVars, taskVars, duckVars, storeVars,
        iterVars,
        nativeVars,
        eventVars,
        sizerVars,
        flatVars,
        promptVars,
        gridVars >>
srcVars == << srcOnly, mutex >>
histGoal == << lastReq, allSame, nReq, mono >>

\* ------------------------------------------------------------ the source
EmptySchema == "empty"
SrcSchema == "A"
NoError == "none"
ChunkError == "chunk error"

RowsOf(i) == IF i = len THEN lastRows ELSE ChunkRows

Chunk(i) == [id |-> i, rows |-> RowsOf(i), schema |-> SrcSchema]

RECURSIVE SumRows(_)
SumRows(s) == IF s = << >> THEN 0 ELSE Head(s).rows + SumRows(Tail(s))

TotalRows == IF len = 0 THEN 0 ELSE (len - 1) * ChunkRows + lastRows

\* Chunks::next at cursor position p: "err", "none" or "ok" (yielding Chunk(p+1))
ChunksNext(p) ==
    IF errAt = p + 1 THEN "err"
    ELSE IF p < len THEN "ok"
    ELSE "none"

\* ------------------------------------------------------------- DataFrame
DataFrameDefault == [schema |-> EmptySchema, batchs |-> << >>, row_count |-> 0]

\* faulty variant: the first-chunk branch is taken for every chunk
push_reset(impl, batch) ==
    [schema |-> batch.schema, batchs |-> << batch >>, row_count |-> batch.rows]

\* faulty variant: an appended batch is not counted
push_stale(impl, batch) ==
    IF impl.schema = EmptySchema
    THEN [schema |-> batch.schema, batchs |-> << batch >>, row_count |-> batch.rows]
    ELSE IF impl.schema = batch.schema
    THEN [schema |-> impl.schema,
          batchs |-> Append(impl.batchs, batch),
          row_count |-> impl.row_count]
    ELSE impl

push(impl, batch) ==
    IF impl.schema = EmptySchema
    THEN [schema |-> batch.schema, batchs |-> << batch >>, row_count |-> batch.rows]
    ELSE IF impl.schema = batch.schema
    THEN [schema |-> impl.schema,
          batchs |-> Append(impl.batchs, batch),
          row_count |-> impl.row_count + batch.rows]
    ELSE impl   \* assert_eq! panics: the batch is not appended

RECURSIVE extend(_, _)
extend(impl, iter) ==
    IF iter = << >> THEN impl ELSE extend(push(impl, Head(iter)), Tail(iter))

from_iter(iter) == extend(DataFrameDefault, iter)

num_rows(d) == d.row_count

\* Loader::load: the preload is the first chunk, or the default store
Preload == IF len = 0 THEN DataFrameDefault ELSE from_iter(<< Chunk(1) >>)

\* Loader::load with full = true: every chunk collected
FullLoad == from_iter([i \in 1..len |-> Chunk(i)])

\* ------------------------------------------------------------------ Init
\* no Loader in play
LoaderIdle ==
    /\ lkind = "Eager" /\ lfull = FALSE /\ lfault = "none" /\ lchunks = 0
    /\ ld = "Dropped" /\ ldSrc = "None" /\ lchan = "empty"
    /\ tpc = "none" /\ tres = "none" /\ lwake = FALSE
    /\ lret = [tag |-> "none", val |-> "none"]
    /\ nThreads = 0 /\ nCon = 0 /\ nNext = 0 /\ nStream = 0
    /\ nTicks = 0 /\ nOut = 0 /\ afterOut = 0

\* no Task in play
TaskIdle ==
    /\ xcount = 0 /\ xhandle = FALSE /\ xtoken = FALSE /\ kwake = FALSE
    /\ xmutex = "free" /\ xresult = 0 /\ xpc = "done" /\ kpc = "dropped"
    /\ lateFalse = FALSE

\* no DuckTask in play
DuckIdle ==
    /\ dchan = "empty" /\ ddone = FALSE /\ dpc = "done" /\ dres = "none"
    /\ dk = "dropped" /\ dgot = FALSE /\ dtickNo = 0
    /\ dret = [some |-> FALSE, val |-> "none"]
    /\ dwake = FALSE /\ nInterrupt = 0 /\ dAtDrop = "none"

\* a handle that points to no store
NoStore == [schema |-> "none", batchs |-> << >>, row_count |-> 0]

\* no store handle in play
StoreIdle ==
    /\ sval = << NoStore, NoStore >> /\ sarc = << 0, 0 >> /\ spanic = FALSE

\* no Iter state in play
IterIdle ==
    /\ idf = DataFrameDefault /\ iidx = 1 /\ iskip = 0 /\ iout = << >>

\* the kinds of native handle of duckdb.rs
HandleKinds == {"stmt", "pending", "result", "chunk"}

\* nothing acquired, nothing released
NoHandles == [k \in HandleKinds |-> [acq |-> 0, rel |-> 0]]

\* no database opened yet
NoDB == [refs |-> 0, opens |-> 0, closes |-> 0]

\* no cursor returned yet
NoCursor == [state |-> "none", fetched |-> 0, late |-> FALSE]

\* no Native state in play
NativeIdle ==
    /\ npc = "end" /\ nop = "execute" /\ nfault = "none" /\ nlen = 0
    /\ nh = NoHandles /\ ncon = << "none", "none" >> /\ ndb = NoDB
    /\ ncur = NoCursor /\ nreported = "none" /\ nret = "none"

\* no Event state in play
EventIdle ==
    /\ etoken = FALSE /\ elpc = "park" /\ echan = << >> /\ epub = 0
    /\ eiter = 0 /\ ewstep = 3 /\ ewakes = 0 /\ ewoken = FALSE
    /\ ecpc = "recv" /\ eneed = 0 /\ eseen = 0 /\ edropped = FALSE

\* no Sizer state in play
SizerIdle ==
    /\ zcols = << >> /\ zfit = FALSE /\ zlast = -1 /\ zret = 0

\* no Flat state in play
FlatIdle ==
    /\ ycols = << >> /\ yfit = FALSE /\ ypanic = FALSE

\* no Prompt state in play
PromptIdle ==
    /\ pN = 0 /\ phist = << >> /\ ppos = -1 /\ pbuf = << >> /\ pins = 0
    /\ pbefore = -2 /\ ppanic = FALSE

\* no Grid state in play
GridIdle ==
    /\ gcols = << >> /\ gnb = 0 /\ c_col = 0 /\ o_col = 0 /\ m_col = 0
    /\ v_col = 0 /\ c_row = 0 /\ o_row = 0 /\ m_row = 0 /\ v_row = 0
    /\ gstate = "Normal" /\ gret = 0 /\ gidx = -1
    /\ gpanic = FALSE

\* no streaming frame in play
StreamIdle ==
    /\ len = 0 /\ lastRows = ChunkRows /\ errAt = 0 /\ pos = 0
    /\ frame = "Full" /\ ferror = NoError /\ df = DataFrameDefault
    /\ is_loading = FALSE /\ goal = 0
    /\ pending = [batches |-> << >>, full |-> FALSE, error |-> NoError]
    /\ strong_count = 0 /\ token = FALSE /\ waker = FALSE /\ wpc = "done"
    /\ loaded = 0 /\ buff = << >> /\ seen = 0 /\ cpc = "dropped"
    /\ fetches = 0 /\ afterRel = 0 /\ lastReq = 0 /\ allSame = TRUE
    /\ nReq = 0 /\ mono = TRUE /\ mutex = "free"

Init ==
    /\ len \in 0..NChunks
    /\ lastRows \in 1..ChunkRows
    /\ len = 0 => lastRows = ChunkRows
    /\ errAt \in {0} \cup (2..(len + 1))
    /\ len = 0 => errAt = 0
    /\ pos = IF len = 0 THEN 0 ELSE 1
    /\ frame = "Streaming"
    /\ ferror = NoError
    /\ df = Preload
    /\ is_loading = TRUE
    /\ goal = 0
    /\ pending = [batches |-> << >>, full |-> FALSE, error |-> NoError]
    /\ strong_count = 2
    /\ token = FALSE
    /\ waker = FALSE
    /\ wpc = "while"
    /\ loaded = num_rows(Preload)
    /\ buff = << >>
    /\ seen = 0
    /\ cpc = "live"
    /\ fetches = 0
    /\ afterRel = 0
    /\ lastReq = -1
    /\ allSame = TRUE
    /\ nReq = 0
    /\ mono = TRUE
    /\ mutex = "free"
    /\ LoaderIdle
    /\ TaskIdle
    /\ DuckIdle
    /\ StoreIdle
    /\ IterIdle
    /\ NativeIdle
    /\ EventIdle
    /\ SizerIdle
    /\ FlatIdle
    /\ PromptIdle
    /\ GridIdle

\* --------------------------------------------------------------- consumer
Max(a, b) == IF a >= b THEN a ELSE b
Min(a, b) == IF a <= b THEN a ELSE b

\* faulty variant: the guard compares with the stored goal, not with the rows loaded
GoalStores_prev(g) == g > goal

\* FrameSource::goal's guard: "No need to update loading goal if already loaded"
GoalStores(g) == g > num_rows(df)

\* faulty variant: the goal is accumulated (fetch_add) instead of stored
StoredGoal_add(g) == goal + g

\* the value `state.goal.store(goal, Relaxed)` writes
StoredGoal(g) == g

\* FrameSource::goal(g)
Goal(g) ==
    /\ cpc = "live"
    /\ IF frame = "Streaming" /\ GoalStores(g)
       THEN /\ goal' = StoredGoal(g)
            /\ token' = TRUE
            /\ mono' = (mono /\ g >= goal)
       ELSE UNCHANGED << goal, token, mono >>
    /\ lastReq' = g
    /\ allSame' = (allSame /\ lastReq \in {-1, g})
    /\ nReq' = Min(nReq + 1, 2)
    /\ UNCHANGED << srcVars, pos, frame, ferror, df, is_loading, pending,
                    strong_count, waker, wpc, loaded, buff, seen, cpc,
                    fetches, afterRel >>

\* faulty variant: the batches are copied out and stay in the pending buffer
Drained_keep == pending.batches

\* what is left in the pending buffer after tick's batches.drain(..)
Drained == << >>

\* faulty variant: the test for a recorded error is inverted
ErrorRecorded_inv == pending.error = NoError

\* `let Some(error) = lock.error.take()`: an error was recorded
ErrorRecorded == pending.error # NoError

\* FrameSource::tick.  Replacing *self drops the old Streaming value, which
\* runs Drop for FrameSource (unpark) and then releases its Arc.
Tick ==
    /\ cpc = "live"
    /\ frame = "Streaming" => mutex = "free"
    /\ IF frame = "Streaming"
       THEN LET ndf == extend(df, pending.batches) IN
            /\ df' = ndf
            /\ IF pending.full
               THEN /\ frame' = "Full"
                    /\ pending' = [pending EXCEPT !.batches = Drained]
                    /\ token' = TRUE
                    /\ strong_count' = strong_count - 1
                    /\ is_loading' = FALSE
                    /\ UNCHANGED ferror
               ELSE IF ErrorRecorded
               THEN /\ frame' = "Error"
                    /\ ferror' = pending.error
                    /\ pending' = [pending EXCEPT !.batches = Drained,
                                                  !.error = NoError]
                    /\ token' = TRUE
                    /\ strong_count' = strong_count - 1
                    /\ is_loading' = FALSE
               ELSE /\ pending' = [pending EXCEPT !.batches = Drained]
                    /\ is_loading' = (goal > num_rows(ndf))
                    /\ UNCHANGED << frame, ferror, token, strong_count >>
       ELSE UNCHANGED << frame, ferror, df, is_loading, pending, token,
                         strong_count >>
    /\ UNCHANGED << srcVars, pos, goal, waker, wpc, loaded, buff, seen, cpc,
                    fetches, afterRel, histGoal >>

\* impl Drop for FrameSource, the body: `state` is bound as `&mut Arc<..>`, so
\* drop(state) drops the borrow and releases nothing; then worker.unpark().
DropBody ==
    /\ cpc = "live"
    /\ IF frame = "Streaming"
       THEN token' = TRUE /\ cpc' = "drop_glue"
       ELSE cpc' = "dropped" /\ UNCHANGED token
    /\ UNCHANGED << srcVars, pos, frame, ferror, df, is_loading, goal, pending,
                    strong_count, waker, wpc, loaded, buff, seen, fetches,
                    afterRel, histGoal >>

\* the drop glue that runs after Drop::drop returns: the fields of the
\* Streaming variant are dropped, the Arc<StreamingState> among them.
DropGlue ==
    /\ cpc = "drop_glue"
    /\ cpc' = "dropped"
    /\ strong_count' = strong_count - 1
    /\ UNCHANGED << srcVars, pos, frame, ferror, df, is_loading, goal, pending,
                    token, waker, wpc, loaded, buff, seen, fetches, afterRel,
                    histGoal >>

\* ----------------------------------------------------------------- worker
\* faulty variant: the loop also runs when loaded equals the goal
WhileCond_le == loaded <= goal

\* `while loaded < state.goal.load(Relaxed)`
WhileCond == loaded < goal

\* faulty variant: the check waits for a count of 0, which the worker's own reference prevents
Canceled_zero == strong_count = 0

\* `Arc::strong_count(&state) == 1`
Canceled == strong_count = 1

\* faulty variant: the `return` is missing and the worker goes round its loop again
Return_continue ==
    /\ wpc' = "while"
    /\ UNCHANGED << strong_count, buff, seen >>

\* the worker returns: its Arc, its buff and its Chunks cursor are dropped
Return ==
    /\ wpc' = "done"
    /\ strong_count' = strong_count - 1
    /\ buff' = << >>
    /\ seen' = 0

WWhile ==
    /\ wpc = "while"
    /\ IF WhileCond
       THEN wpc' = "rc_in" /\ seen' = goal
       ELSE wpc' = "rc_out" /\ seen' = 0
    /\ UNCHANGED << srcVars, pos, frame, ferror, df, is_loading, goal, pending,
                    strong_count, token, waker, loaded, buff, cpc, fetches,
                    afterRel, histGoal >>

\* the cancellation check inside the fetch loop
WCheckIn ==
    /\ wpc = "rc_in"
    /\ IF Canceled
       THEN Return
       ELSE wpc' = "next" /\ UNCHANGED << strong_count, buff, seen >>
    /\ UNCHANGED << srcVars, pos, frame, ferror, df, is_loading, goal, pending,
                    token, waker, loaded, cpc, fetches, afterRel, histGoal >>

\* chunks.next() is entered (the native fetch starts)
WCall ==
    /\ wpc = "next"
    /\ wpc' = "in_next"
    /\ seen' = 0
    /\ fetches' = fetches + 1
    /\ afterRel' = IF strong_count = 1 THEN afterRel + 1 ELSE afterRel
    /\ UNCHANGED << srcVars, pos, frame, ferror, df, is_loading, goal, pending,
                    strong_count, token, waker, loaded, buff, cpc, histGoal >>

\* chunks.next() returns and the match arm's local part runs
WFetched ==
    /\ wpc = "in_next"
    /\ LET r == ChunksNext(pos) IN
       /\ r = "ok" =>
            /\ pos' = pos + 1
            /\ loaded' = loaded + Chunk(pos + 1).rows
            /\ buff' = Append(buff, Chunk(pos + 1))
            /\ wpc' = "while"
       /\ r = "err" => wpc' = "set_error" /\ UNCHANGED << pos, loaded, buff >>
       /\ r = "none" => wpc' = "set_full" /\ UNCHANGED << pos, loaded, buff >>
    /\ UNCHANGED << srcVars, frame, ferror, df, is_loading, goal, pending,
                    strong_count, token, waker, seen, cpc, fetches, afterRel,
                    histGoal >>

\* faulty variant: the guard is bound to a local and outlives the statement
Unlocked_held == "worker"

\* the MutexGuard of `state.pending.lock().unwrap()` is a temporary of its
\* statement: it is dropped at the `;` and the mutex is free again
Unlocked == "free"

\* `state.pending.lock()` in one of the worker's three statements: the worker
\* blocks until the mutex is free, then owns the guard
WLock ==
    /\ wpc \in {"set_error", "set_full", "flush"}
    /\ mutex = "free"
    /\ mutex' = "worker"
    /\ wpc' = CASE wpc = "set_error" -> "set_error_w"
                [] wpc = "set_full" -> "set_full_w"
                [] wpc = "flush" -> "flush_w"
    /\ UNCHANGED << srcOnly, pos, frame, ferror, df, is_loading, goal, pending,
                    strong_count, token, waker, loaded, buff, seen, cpc,
                    fetches, afterRel, histGoal >>

\* `state.pending.lock().unwrap().error = Some(err.to_string())`
WSetError ==
    /\ wpc = "set_error_w"
    /\ pending' = [pending EXCEPT !.error = ChunkError]
    /\ mutex' = Unlocked
    /\ wpc' = "wake_ret"
    /\ UNCHANGED << srcOnly, pos, frame, ferror, df, is_loading, goal,
                    strong_count, token, waker, loaded, buff, seen, cpc,
                    fetches, afterRel, histGoal >>

\* `state.pending.lock().unwrap().full = true`
WSetFull ==
    /\ wpc = "set_full_w"
    /\ pending' = [pending EXCEPT !.full = TRUE]
    /\ mutex' = Unlocked
    /\ wpc' = "wake_ret"
    /\ UNCHANGED << srcOnly, pos, frame, ferror, df, is_loading, goal,
                    strong_count, token, waker, loaded, buff, seen, cpc,
                    fetches, afterRel, histGoal >>

\* `orchestrator.wake(); return;`
WWakeReturn ==
    /\ wpc = "wake_ret"
    /\ waker' = TRUE
    /\ Return
    /\ UNCHANGED << srcVars, pos, frame, ferror, df, is_loading, goal, pending,
                    token, loaded, cpc, fetches, afterRel, histGoal >>

\* the cancellation check after the fetch loop
WCheckOut ==
    /\ wpc = "rc_out"
    /\ IF Canceled
       THEN Return
       ELSE /\ wpc' = IF buff # << >> THEN "flush" ELSE "park"
            /\ UNCHANGED << strong_count, buff, seen >>
    /\ UNCHANGED << srcVars, pos, frame, ferror, df, is_loading, goal, pending,
                    token, waker, loaded, cpc, fetches, afterRel, histGoal >>

\* faulty variant: the new chunks are put in front of those not yet drained
Flushed_front == buff \o pending.batches

\* the pending batches after `batches.append(&mut buff)`
Flushed == pending.batches \o buff

\* `state.pending.lock().unwrap().batches.append(&mut buff)`
WFlush ==
    /\ wpc = "flush_w"
    /\ pending' = [pending EXCEPT !.batches = Flushed]
    /\ buff' = << >>
    /\ mutex' = Unlocked
    /\ wpc' = "wake_park"
    /\ UNCHANGED << srcOnly, pos, frame, ferror, df, is_loading, goal,
                    strong_count, token, waker, loaded, seen, cpc, fetches,
                    afterRel, histGoal >>

\* `orchestrator.wake()` after a flush
WWake ==
    /\ wpc = "wake_park"
    /\ waker' = TRUE
    /\ wpc' = "park"
    /\ UNCHANGED << srcVars, pos, frame, ferror, df, is_loading, goal, pending,
                    strong_count, token, loaded, buff, seen, cpc, fetches,
                    afterRel, histGoal >>

\* `std::thread::park()` returns by consuming the token
WPark ==
    /\ wpc = "park"
    /\ token
    /\ token' = FALSE
    /\ wpc' = "while"
    /\ UNCHANGED << srcVars, pos, frame, ferror, df, is_loading, goal, pending,
                    strong_count, waker, loaded, buff, seen, cpc, fetches,
                    afterRel, histGoal >>

\* park() may also return spuriously, without a token
WSpurious ==
    /\ wpc = "park"
    /\ ~token
    /\ wpc' = "while"
    /\ UNCHANGED << srcVars, pos, frame, ferror, df, is_loading, goal, pending,
                    strong_count, token, waker, loaded, buff, seen, cpc,
                    fetches, afterRel, histGoal >>

\* the worker's steps that the scheduler guarantees (a running thread runs)
Worker ==
    \/ WWhile
    \/ WCheckIn
    \/ WCall
    \/ WFetched
    \/ WLock
    \/ WSetError
    \/ WSetFull
    \/ WWakeReturn
    \/ WCheckOut
    \/ WFlush
    \/ WWake
    \/ WPark

Next ==
    \/ \E g \in Goals : Goal(g)
    \/ Tick
    \/ DropBody
    \/ DropGlue
    \/ Worker
    \/ WSpurious

Spec == Init /\ [][Next]_vars

\* the consumer keeps its handle and only raises the goal
GoalUp(g) == g >= lastReq /\ Goal(g)

LiveNext ==
    \/ \E g \in Goals : GoalUp(g)
    \/ Tick
    \/ Worker
    \/ WSpurious

\* a running worker thread keeps running; the consumer's render loop keeps ticking
LiveSpec == Init /\ [][LiveNext]_vars /\ WF_vars(Worker) /\ WF_vars(Tick)

\* a running worker thread keeps running; a drop that has begun runs its glue
FairSpec == Init /\ [][Next]_vars /\ WF_vars(Worker) /\ WF_vars(DropGlue)

\* ------------------------------------------------------------ observations
PreloadRows == num_rows(Preload)

CeilDiv(a, b) == (a + b - 1) \div b

\* rows of the chunks the cursor has yielded so far (preload included)
FetchedRows == SumRows([i \in 1..pos |-> Chunk(i)])

\* every chunk held anywhere on its way to the screen, in order
Held == df.batchs \o pending.batches \o buff

IsPrefix(s, t) == Len(s) <= Len(t) /\ SubSeq(t, 1, Len(s)) = s

\* the worker is parked and nothing will wake it
Parked == wpc = "park" /\ ~token

\* next() calls a worker makes for one goal g, from cursor p with l rows loaded
RECURSIVE CallsFor(_, _, _)
CallsFor(p, l, g) ==
    IF l >= g THEN 0
    ELSE IF ChunksNext(p) = "ok" THEN 1 + CallsFor(p + 1, l + Chunk(p + 1).rows, g)
    ELSE 1

\* next() calls caused by a single goal(g) on a fresh frame
SingleGoalCalls(g) ==
    IF g > PreloadRows THEN CallsFor(IF len = 0 THEN 0 ELSE 1, PreloadRows, g) ELSE 0

\* ------------------------------------------------------------------ claims

\* C1: with the handle kept, goals only raised, ticks continuing and a stream
\* that never errors, the store eventually holds at least min(g, total_rows)
\* rows for the requested goal g, also when g exceeds total_rows.
C1_GoalEventuallyMet ==
    \A g \in Goals :
        (errAt = 0 /\ lastReq = g) ~> (num_rows(df) >= Min(g, TotalRows))

\* C2: once the frame is Full (the stream was exhausted), the store holds the
\* same chunks and row count as the eager full load of the source.
C2_FullEqualsEagerLoad ==
    frame = "Full" =>
        /\ df.batchs = FullLoad.batchs
        /\ num_rows(df) = num_rows(FullLoad)

\* C3: a frame in the Error state exposes exactly the rows of every chunk
\* that was fetched successfully before the failure (preload included).
C3_ErrorKeepsFetchedRows ==
    frame = "Error" =>
        /\ num_rows(df) = FetchedRows
        /\ df.batchs = [i \in 1..pos |-> Chunk(i)]

\* C4: after the consumer's reference to the shared state is released, the
\* worker starts at most one further chunks.next() call.
C4_OneFetchAfterRelease == afterRel <= 1

C4_Witness == afterRel = 1 /\ wpc = "done" /\ cpc = "dropped"

\* C5: after the frame is dropped, the worker thread eventually returns.
C5_DroppedWorkerReturns == (cpc = "dropped") ~> (wpc = "done")

\* C6: next() is only called with loaded strictly below the goal the loop
\* condition loaded; for goals that were only raised and stay within
\* total_rows the worker never makes more than ceil((goal - preload) / b)
\* calls, and makes exactly that many by the time it is parked.
C6_MinimalFetching ==
    /\ wpc \in {"rc_in", "next"} => loaded < seen
    /\ (mono /\ goal <= TotalRows) =>
          /\ fetches <= CeilDiv(Max(goal - PreloadRows, 0), ChunkRows)
          /\ Parked => fetches = CeilDiv(Max(goal - PreloadRows, 0), ChunkRows)

C6_Witness ==
    /\ Parked /\ mono /\ ~allSame
    /\ goal <= TotalRows
    /\ fetches = 2
    /\ goal = PreloadRows + 2 * ChunkRows - 1

\* C7: the store never holds more rows than the source has, and no chunk is
\* held twice anywhere between the cursor and the store.
C7_NeverMoreThanTotal ==
    /\ num_rows(df) <= TotalRows
    /\ \A i, j \in DOMAIN Held : i # j => Held[i].id # Held[j].id

C7_Witness ==
    /\ frame = "Streaming"
    /\ Len(df.batchs) = NChunks
    /\ num_rows(df) = TotalRows

\* C8: when every goal() call so far passed the same g, however many calls
\* there were, the worker makes no more next() calls than a single goal(g)
\* causes, and exactly that many once it is parked or has returned.
C8_GoalIdempotent ==
    (allSame /\ nReq >= 1) =>
        /\ fetches <= SingleGoalCalls(lastReq)
        /\ (cpc = "live" /\ (Parked \/ wpc = "done"))
              => fetches = SingleGoalCalls(lastReq)

C8_Witness ==
    /\ allSame /\ nReq = 2 /\ cpc = "live" /\ Parked
    /\ goal = lastReq
    /\ fetches >= 1

\* the goal requested before this call (the initial goal when there was none)
PrevReq == IF lastReq = -1 THEN goal ELSE lastReq

C10_NothingDiscarded ==
    [][/\ num_rows(df') >= num_rows(df)
       /\ IsPrefix(df.batchs, df'.batchs)
       /\ IsPrefix(df.batchs \o pending.batches, df'.batchs \o pending'.batches)]_vars

C10_Witness ==
    /\ ~mono /\ frame = "Streaming"
    /\ goal < num_rows(df) + SumRows(pending.batches)
    /\ Len(df.batchs) >= 2
    /\ pending.batches # << >>

\* the ids of a chunk sequence rise strictly: the order next() produced them
InSourceOrder(s) == \A i, j \in DOMAIN s : i < j => s[i].id < s[j].id

\* C11: the chunks in the store, and those still on their way to it (pending
\* buffer, then the worker's buff), are always in the order chunks.next()
\* produced them.
C11_SourceOrderKept ==
    /\ InSourceOrder(df.batchs)
    /\ InSourceOrder(Held)

C11_Witness ==
    /\ frame = "Streaming"
    /\ Len(df.batchs) = 2
    /\ Len(pending.batches) = 1
    /\ wpc = "park"

\* C12: the frame's state only changes from Streaming, to Full when
\* exhaustion was recorded or to Error when an error was recorded; in Full
\* and Error no step (tick, goal) changes the state, the store or the error.
C12_TerminalStates ==
    [][/\ frame' # frame =>
             /\ frame = "Streaming"
             /\ \/ frame' = "Full" /\ pending.full
                \/ frame' = "Error" /\ pending.error # NoError
       /\ frame # "Streaming" =>
             /\ frame' = frame
             /\ df' = df
             /\ ferror' = ferror]_vars

\* an Error frame whose latest goal() asked for more rows than it holds and
\* was ignored
C12_Witness ==
    /\ frame = "Error" /\ cpc = "live"
    /\ lastReq > num_rows(df)
    /\ goal # lastReq

\* C24: the worker never holds the mutex of the pending buffer while it is
\* inside chunks.next(): whenever the native fetch is running the mutex is
\* free, so a tick() of the consumer can take it at once.
C24_NoLockAcrossNativeCall ==
    /\ wpc = "in_next" => mutex = "free"
    /\ mutex = "worker" => wpc \in {"set_error_w", "set_full_w", "flush_w"}

\* the worker has flushed once under the lock and is fetching again while the
\* flushed chunk still waits for the consumer's tick
C24_Witness ==
    /\ wpc = "in_next"
    /\ fetches >= 2
    /\ pending.batches # << >>
    /\ cpc = "live" /\ frame = "Streaming"

\* the worker has recorded exhaustion or an error in the pending buffer
Stopped == pending.full \/ pending.error # NoError

\* C30: `full` and `error` are never both set in the pending buffer, and once
\* either is set the worker has stopped: it is returning or has returned, it
\* never leaves that position, and no step fetches a chunk or appends one to
\* the pending buffer any more.
C30_FullOrErrorStopsWorker ==
    /\ [](~(pending.full /\ pending.error # NoError))
    /\ [](Stopped => wpc \in {"wake_ret", "done"})
    /\ [][/\ wpc = "done" => wpc' = "done"
          /\ (Stopped \/ wpc \in {"wake_ret", "done"}) =>
                /\ fetches' = fetches
                /\ pos' = pos
                /\ pending'.batches \in {pending.batches, Drained}]_vars

\* exhaustion was recorded after chunks had been fetched and flushed, and the
\* worker has returned with the consumer still alive
C30_Witness ==
    /\ pending.full /\ pending.error = NoError
    /\ wpc = "done" /\ fetches >= 2
    /\ cpc = "live" /\ frame = "Streaming"

\* ===================================================================
\* Loader (source.rs) over the one-shot Task of event.rs
\* ===================================================================
Kinds == {"Eager", "File", "Sql"}

\* where the closure of the task can fail
Faults == {"none", "connect", "prepare", "pending", "execute", "chunk", "panic"}

\* results the closure can produce
OkResults == {"Full", "Streaming"}

ErrResults == {"Connect", "Prepare", "Unknown", "Chunk"}

Disconnected == "Task failed without error"

\* Source::sync_full: only an eager source has a snapshot at hand
\* faulty variant: no source has one
sync_full_none(kind) ==
    "None"

sync_full(kind) ==
    IF kind = "Eager" THEN "Some" ELSE "None"

\* duckdb_prepare reports a failure
\* faulty variant: the failure of duckdb_prepare is ignored
PrepareFails_never ==
    FALSE

PrepareFails ==
    lfault = "prepare"

\* oneshot try_recv: the message if one is there, Empty while the sender
\* lives, Disconnected once the sender is gone or the message was taken
\* faulty variant: a channel without sender still reads as empty
try_recv_empty(c) ==
    IF c \in {"empty", "disconnected", "received"} THEN "Empty" ELSE c

try_recv(c) ==
    IF c = "empty" THEN "Empty"
    ELSE IF c \in {"disconnected", "received"} THEN "Disconnected"
    ELSE c

\* the channel after try_recv
Received(c) ==
    IF c \in OkResults \cup ErrResults THEN "received" ELSE c

\* Task::tick -> Result<Option<T>>
TaskTick(c) ==
    LET r == try_recv(c) IN
    IF r = "Empty" THEN [tag |-> "Ok", val |-> "None"]
    ELSE IF r = "Disconnected" THEN [tag |-> "Err", val |-> Disconnected]
    ELSE IF r \in OkResults THEN [tag |-> "Ok", val |-> r]
    ELSE [tag |-> "Err", val |-> r]

\* the loader after its task yielded a frame
\* faulty variant: the loader keeps its finished task
AfterOutcome_pending ==
    "Pending"

AfterOutcome ==
    "Finished"

IsOutcome(r) == r.tag = "Err" \/ r.val # "None"

NoRet == [tag |-> "none", val |-> "none"]

LoaderInit ==
    /\ StreamIdle
    /\ TaskIdle
    /\ DuckIdle
    /\ StoreIdle
    /\ IterIdle
    /\ NativeIdle
    /\ EventIdle
    /\ SizerIdle
    /\ FlatIdle
    /\ PromptIdle
    /\ GridIdle
    /\ lkind \in Kinds /\ lfull \in BOOLEAN /\ lfault \in Faults
    /\ lchunks \in 0..NChunks
    /\ ld = "New" /\ ldSrc = "None" /\ lchan = "empty"
    /\ tpc = "none" /\ tres = "none" /\ lwake = FALSE /\ lret = NoRet
    /\ nThreads = 0 /\ nCon = 0 /\ nNext = 0 /\ nStream = 0
    /\ nTicks = 0 /\ nOut = 0 /\ afterOut = 0

\* what no step of the Loader changes
loaderRest == << streamVars, taskVars, duckVars, storeVars,
        iterVars,
        nativeVars,
        eventVars,
        sizerVars,
        flatVars,
        promptVars,
        gridVars >>

loaderHist == << nTicks, nOut, afterOut, lret >>

loaderStatic == << lkind, lfull, lfault, lchunks >>

\* Loader::streaming / Loader::full
Load ==
    /\ ld = "New"
    /\ IF sync_full(lkind) = "Some"
       THEN /\ ld' = "Finished"
            /\ ldSrc' = "Full"
            /\ UNCHANGED << tpc, nThreads >>
       ELSE /\ ld' = "Pending"
            /\ ldSrc' = "None"
            /\ tpc' = "con"
            /\ nThreads' = nThreads + 1
    /\ UNCHANGED << loaderRest, loaderStatic, loaderHist, lchan, tres, lwake,
                    nCon, nNext, nStream >>

\* Loader::tick
LTick ==
    /\ ld \in {"Pending", "Finished"}
    /\ LET r == IF ld = "Finished"
                THEN [tag |-> "Ok", val |-> ldSrc]
                ELSE TaskTick(lchan)
       IN /\ lret' = r
          /\ ldSrc' = "None"
          /\ lchan' = IF ld = "Pending" THEN Received(lchan) ELSE lchan
          /\ ld' = IF ld = "Finished" THEN ld
                   ELSE IF r.tag = "Err" THEN "Finished"
                   ELSE IF r.val # "None" THEN AfterOutcome
                   ELSE ld
          /\ nOut' = IF IsOutcome(r) THEN Min(nOut + 1, 2) ELSE nOut
    /\ nTicks' = Min(nTicks + 1, 2)
    /\ afterOut' = IF nOut >= 1 THEN Min(afterOut + 1, 2) ELSE afterOut
    /\ UNCHANGED << loaderRest, loaderStatic, tpc, tres, lwake, nThreads,
                    nCon, nNext, nStream >>

\* the consumer lets go of the loader; a pending task loses its receiver
LDrop ==
    /\ ld \in {"Pending", "Finished"}
    /\ ld' = "Dropped"
    /\ ldSrc' = "None"
    /\ lchan' = IF ld = "Pending" THEN "closed" ELSE lchan
    /\ UNCHANGED << loaderRest, loaderStatic, loaderHist, tpc, tres, lwake,
                    nThreads, nCon, nNext, nStream >>

\* the closure ends with result r
Ends(r) ==
    /\ tres' = r
    /\ tpc' = "send"

\* Source::con
TCon ==
    /\ tpc = "con"
    /\ nCon' = nCon + 1
    /\ IF lfault = "connect"
       THEN Ends("Connect")
       ELSE /\ tpc' = "prepare"
            /\ UNCHANGED tres
    /\ UNCHANGED << loaderRest, loaderStatic, loaderHist, ld, ldSrc, lchan,
                    lwake, nThreads, nNext, nStream >>

\* CString::new(query).unwrap() unwinds the thread: the sender is dropped
TPanic ==
    /\ tpc = "prepare"
    /\ lfault = "panic"
    /\ tpc' = "done"
    /\ lchan' = IF lchan = "closed" THEN lchan ELSE "disconnected"
    /\ UNCHANGED << loaderRest, loaderStatic, loaderHist, ld, ldSrc, tres,
                    lwake, nThreads, nCon, nNext, nStream >>

\* duckdb_prepare
TPrepare ==
    /\ tpc = "prepare"
    /\ lfault # "panic"
    /\ IF PrepareFails
       THEN Ends("Prepare")
       ELSE /\ tpc' = "pending"
            /\ UNCHANGED tres
    /\ UNCHANGED << loaderRest, loaderStatic, loaderHist, ld, ldSrc, lchan,
                    lwake, nThreads, nCon, nNext, nStream >>

\* duckdb_pending_prepared_streaming
TPending ==
    /\ tpc = "pending"
    /\ IF lfault = "pending"
       THEN Ends("Unknown")
       ELSE /\ tpc' = "execute"
            /\ UNCHANGED tres
    /\ UNCHANGED << loaderRest, loaderStatic, loaderHist, ld, ldSrc, lchan,
                    lwake, nThreads, nCon, nNext, nStream >>

\* duckdb_execute_pending; on success the closure goes on with the Chunks
TExecute ==
    /\ tpc = "execute"
    /\ IF lfault = "execute"
       THEN Ends("Unknown")
       ELSE /\ tpc' = IF lfull THEN "collect" ELSE "first"
            /\ UNCHANGED tres
    /\ UNCHANGED << loaderRest, loaderStatic, loaderHist, ld, ldSrc, lchan,
                    lwake, nThreads, nCon, nNext, nStream >>

\* full: chunks.map(..).collect() reads up to the first Err or the None
TCollect ==
    /\ tpc = "collect"
    /\ IF lfault = "chunk"
       THEN /\ nNext' = nNext + 1
            /\ Ends("Chunk")
       ELSE /\ nNext' = nNext + lchunks + 1
            /\ Ends("Full")
    /\ UNCHANGED << loaderRest, loaderStatic, loaderHist, ld, ldSrc, lchan,
                    lwake, nThreads, nCon, nStream >>

\* streaming: the preload is the first chunk, or an empty frame
TFirst ==
    /\ tpc = "first"
    /\ nNext' = nNext + 1
    /\ IF lfault = "chunk"
       THEN Ends("Chunk")
       ELSE /\ tpc' = "stream"
            /\ UNCHANGED tres
    /\ UNCHANGED << loaderRest, loaderStatic, loaderHist, ld, ldSrc, lchan,
                    lwake, nThreads, nCon, nStream >>

\* FrameSource::streaming(preload, chunks, orch): frame and worker exist
TStream ==
    /\ tpc = "stream"
    /\ nStream' = nStream + 1
    /\ Ends("Streaming")
    /\ UNCHANGED << loaderRest, loaderStatic, loaderHist, ld, ldSrc, lchan,
                    lwake, nThreads, nCon, nNext >>

\* sender.send(result): fails when the receiver is gone
TSend ==
    /\ tpc = "send"
    /\ IF lchan = "closed"
       THEN /\ tpc' = "done"
            /\ UNCHANGED lchan
       ELSE /\ tpc' = "unpark"
            /\ lchan' = tres
    /\ UNCHANGED << loaderRest, loaderStatic, loaderHist, ld, ldSrc, tres,
                    lwake, nThreads, nCon, nNext, nStream >>

\* wake.unpark()
TUnpark ==
    /\ tpc = "unpark"
    /\ tpc' = "done"
    /\ lwake' = TRUE
    /\ UNCHANGED << loaderRest, loaderStatic, loaderHist, ld, ldSrc, lchan,
                    tres, nThreads, nCon, nNext, nStream >>

LoaderNext ==
    \/ Load
    \/ LTick
    \/ LDrop
    \/ TCon
    \/ TPanic
    \/ TPrepare
    \/ TPending
    \/ TExecute
    \/ TCollect
    \/ TFirst
    \/ TStream
    \/ TSend
    \/ TUnpark

LoaderSpec == LoaderInit /\ [][LoaderNext]_vars

\* Loader::is_loading
loader_is_loading == ld = "Pending"

\* the closure got past duckdb_prepare with a failure
PrepareFailed == lfault = "prepare" /\ tpc \in {"send", "unpark", "done"}

\* C13: over any sequence of Loader::tick calls at most one returns
\* Ok(Some(frame)) or Err; every call after that one returns Ok(None) and
\* leaves the loader in Finished(None); a task that has yielded its result
\* is never polled again (a loader still Pending never holds an emptied
\* channel).
C13_OutcomeConsumedOnce ==
    /\ nOut <= 1
    /\ afterOut >= 1 => lret = [tag |-> "Ok", val |-> "None"]
    /\ (nOut >= 1 /\ ld # "Dropped") => (ld = "Finished" /\ ldSrc = "None")
    /\ ld = "Pending" => lchan # "received"

C13_Witness ==
    /\ nOut = 1
    /\ afterOut = 2
    /\ lchan = "received"
    /\ ld = "Finished"

\* C14: when the query of a source that has to be queried (sync_full() is
\* None) fails to prepare, no chunk is ever requested and no
\* streaming frame or worker is created; the tick that takes the task's
\* result returns the Prepare error and leaves the loader in Finished(None),
\* and no tick ever returns a frame.
C14_PrepareFailure ==
    (lfault = "prepare" /\ sync_full(lkind) = "None") =>
        /\ nNext = 0
        /\ nStream = 0
        /\ lret.val \notin OkResults
        /\ lchan \notin OkResults
        /\ (PrepareFailed /\ lchan = "received") =>
               /\ nOut = 1
               /\ ld \in {"Finished", "Dropped"}
               /\ ldSrc = "None"
               /\ afterOut = 0 => lret = [tag |-> "Err", val |-> "Prepare"]

C14_Witness ==
    /\ PrepareFailed
    /\ lret = [tag |-> "Err", val |-> "Prepare"]
    /\ ld = "Finished"
    /\ tpc = "done"

\* C15: for an eager source the load ends at once in
\* Finished(Some(Full(snapshot))): no thread is spawned, no connection is
\* opened, is_loading() is false, and the first tick returns the frame.
C15_EagerLoadsSynchronously ==
    (lkind = "Eager" /\ ld # "New") =>
        /\ nThreads = 0
        /\ nCon = 0
        /\ tpc = "none"
        /\ ~loader_is_loading
        /\ (nTicks = 0 /\ ld = "Finished") => ldSrc = "Full"
        /\ nTicks = 1 => lret = [tag |-> "Ok", val |-> "Full"]
        /\ nTicks >= 1 => nOut = 1

C15_Witness ==
    /\ lkind = "Eager"
    /\ nTicks = 1
    /\ lret = [tag |-> "Ok", val |-> "Full"]
    /\ ld = "Finished"

\* ===================================================================
\* Background Task and its Ctx (task.rs, Runner::task)
\* ===================================================================
MaxUpdates == 2         \* updates the result holds before the consumer takes them

\* Ctx::canceled
CtxCanceled == xcount = 1

\* Drop for Task: the statements of drop(), in order
\* faulty variant: the worker is woken before the reference is released
TaskDropOrder_unparkFirst ==
    << "unpark", "release" >>

TaskDropOrder ==
    << "release", "unpark" >>

\* statements of Drop for Task already executed
DropStepsDone == IF kpc = "dropped" THEN 2 ELSE IF kpc = "drop1" THEN 1 ELSE 0

\* the drop's worker.unpark() has been executed
DropUnparked == \E i \in 1..DropStepsDone : TaskDropOrder[i] = "unpark"

\* Runner::task has returned: handle and Ctx each hold one reference
TaskInit ==
    /\ StreamIdle
    /\ LoaderIdle
    /\ DuckIdle
    /\ StoreIdle
    /\ IterIdle
    /\ NativeIdle
    /\ EventIdle
    /\ SizerIdle
    /\ FlatIdle
    /\ PromptIdle
    /\ GridIdle
    /\ xcount = 2 /\ xhandle = TRUE /\ xtoken = FALSE /\ kwake = FALSE
    /\ xmutex = "free" /\ xresult = 0 /\ xpc = "check" /\ kpc = "live"
    /\ lateFalse = FALSE

\* what no step of the Task changes
taskRest == << streamVars, loaderVars, duckVars, storeVars,
        iterVars,
        nativeVars,
        eventVars,
        sizerVars,
        flatVars,
        promptVars,
        gridVars >>

\* the worker asks ctx.canceled() and returns if so; otherwise it goes on
\* with an update of the result, with a wait, or ends by itself
XCheck ==
    /\ xpc = "check"
    /\ IF CtxCanceled
       THEN /\ xpc' = "dropctx"
            /\ UNCHANGED lateFalse
       ELSE /\ \/ xresult < MaxUpdates /\ xpc' = "acquire"
               \/ xpc' = "park"
               \/ xpc' = "dropctx"
            /\ lateFalse' = (lateFalse \/ DropUnparked)
    /\ UNCHANGED << taskRest, xcount, xhandle, xtoken, kwake, xmutex, xresult,
                    kpc >>

\* Ctx::lock: self.inner.lock.lock()
XAcquire ==
    /\ xpc = "acquire"
    /\ xmutex = "free"
    /\ xmutex' = "worker"
    /\ xpc' = "update"
    /\ UNCHANGED << taskRest, xcount, xhandle, xtoken, kwake, xresult, kpc,
                    lateFalse >>

\* Ctx::lock: update(&mut lock)
XUpdate ==
    /\ xpc = "update"
    /\ xresult' = xresult + 1
    /\ xpc' = "release"
    /\ UNCHANGED << taskRest, xcount, xhandle, xtoken, kwake, xmutex, kpc,
                    lateFalse >>

\* Ctx::lock: drop(lock), and the call returns
XRelease ==
    /\ xpc = "release"
    /\ xmutex' = "free"
    /\ xpc' = "check"
    /\ UNCHANGED << taskRest, xcount, xhandle, xtoken, kwake, xresult, kpc,
                    lateFalse >>

\* Ctx::wait: std::thread::park() returns on a token
XPark ==
    /\ xpc = "park"
    /\ xtoken
    /\ xtoken' = FALSE
    /\ xpc' = "unpark"
    /\ UNCHANGED << taskRest, xcount, xhandle, kwake, xmutex, xresult, kpc,
                    lateFalse >>

\* Ctx::wait: park() may also return without a token
XSpurious ==
    /\ xpc = "park"
    /\ ~xtoken
    /\ xpc' = "unpark"
    /\ UNCHANGED << taskRest, xcount, xhandle, xtoken, kwake, xmutex, xresult,
                    kpc, lateFalse >>

\* Ctx::wait: self.wake.unpark()
XWaitUnpark ==
    /\ xpc = "unpark"
    /\ kwake' = TRUE
    /\ xpc' = "check"
    /\ UNCHANGED << taskRest, xcount, xhandle, xtoken, xmutex, xresult, kpc,
                    lateFalse >>

\* the closure returns: Drop for Ctx unparks the wake thread, then the
\* Ctx's reference goes
XReturn ==
    /\ xpc = "dropctx"
    /\ kwake' = TRUE
    /\ xcount' = xcount - 1
    /\ xpc' = "done"
    /\ UNCHANGED << taskRest, xhandle, xtoken, xmutex, xresult, kpc,
                    lateFalse >>

\* Task::wake
KWake ==
    /\ kpc = "live"
    /\ xtoken' = TRUE
    /\ UNCHANGED << taskRest, xcount, xhandle, kwake, xmutex, xresult, xpc,
                    kpc, lateFalse >>

\* Task::lock: the mutex is taken
KAcquire ==
    /\ kpc = "live"
    /\ xmutex = "free"
    /\ xmutex' = "consumer"
    /\ kpc' = "locked"
    /\ UNCHANGED << taskRest, xcount, xhandle, xtoken, kwake, xresult, xpc,
                    lateFalse >>

\* Task::lock: the update takes what the result holds; the mutex is released
KRelease ==
    /\ kpc = "locked"
    /\ xresult' = 0
    /\ xmutex' = "free"
    /\ kpc' = "live"
    /\ UNCHANGED << taskRest, xcount, xhandle, xtoken, kwake, xpc,
                    lateFalse >>

\* one statement of Drop for Task
DropStep(stmt) ==
    IF stmt = "release"
    THEN /\ xhandle' = FALSE
         /\ xcount' = xcount - 1
         /\ UNCHANGED xtoken
    ELSE /\ xtoken' = TRUE
         /\ UNCHANGED << xhandle, xcount >>

KDrop1 ==
    /\ kpc = "live"
    /\ DropStep(TaskDropOrder[1])
    /\ kpc' = "drop1"
    /\ UNCHANGED << taskRest, kwake, xmutex, xresult, xpc, lateFalse >>

KDrop2 ==
    /\ kpc = "drop1"
    /\ DropStep(TaskDropOrder[2])
    /\ kpc' = "dropped"
    /\ UNCHANGED << taskRest, kwake, xmutex, xresult, xpc, lateFalse >>

\* the wake thread's park() returns
KListen ==
    /\ kwake
    /\ kwake' = FALSE
    /\ UNCHANGED << taskRest, xcount, xhandle, xtoken, xmutex, xresult, xpc,
                    kpc, lateFalse >>

TaskNext ==
    \/ XCheck
    \/ XAcquire
    \/ XUpdate
    \/ XRelease
    \/ XPark
    \/ XSpurious
    \/ XWaitUnpark
    \/ XReturn
    \/ KWake
    \/ KAcquire
    \/ KRelease
    \/ KDrop1
    \/ KDrop2
    \/ KListen

TaskSpec == TaskInit /\ [][TaskNext]_vars

\* C16: every Ctx::lock(update) applies the update while the worker holds
\* the mutex, and when the call returns the consumer's wake thread has been
\* unparked (its park token is set).
C16_LockSignalsConsumer ==
    [][/\ (xpc = "update" /\ xpc' = "release") => xmutex = "worker"
       /\ (xpc = "release" /\ xpc' # "release") => kwake']_vars

\* C17: while the worker's Ctx lives, canceled() is false exactly as long as
\* the Task handle holds its reference; no canceled() check made after the
\* drop's unpark returns false; and once the drop is over a worker standing
\* at park() has a token waiting, so it does not park forever.
C17_CancelSeenAfterDrop ==
    /\ xpc # "done" => (CtxCanceled <=> ~xhandle)
    /\ ~lateFalse
    /\ (kpc = "dropped" /\ xpc = "park") => xtoken

C17_Witness ==
    /\ kpc = "dropped"
    /\ xpc = "park"
    /\ xtoken
    /\ CtxCanceled

\* ===================================================================
\* DuckTask (task.rs, Runner::duckdb)
\* ===================================================================
DuckResults == {"Ok", "Err"}

\* the worker thread after the task body: its statements, in order
\* faulty variant: the result is sent before the done flag is set
WorkerOrder_sendFirst ==
    << "send", "store" >>

WorkerOrder ==
    << "store", "send" >>

\* the channel after DuckTask::tick's try_recv
DReceived(c) ==
    IF c \in DuckResults THEN "received" ELSE c

DNone == [some |-> FALSE, val |-> "none"]

DSome(r) == [some |-> TRUE, val |-> r]

\* DuckTask::tick -> Option<Result<T>>
DuckTick(c) ==
    LET r == try_recv(c) IN
    IF r = "Empty" THEN DNone
    ELSE IF r = "Disconnected" THEN DSome(Disconnected)
    ELSE DSome(r)

\* values done.load(Relaxed) can return in Drop for DuckTask: the store is
\* certainly seen once the result came through the channel
DoneLoads ==
    IF ~ddone THEN {FALSE}
    ELSE IF dgot THEN {TRUE}
    ELSE BOOLEAN

\* sender.send(result) returned Ok
SendOk == dchan \notin {"empty", "closed"}

\* Runner::duckdb has returned: the worker thread is about to run the body
DuckInit ==
    /\ StreamIdle
    /\ LoaderIdle
    /\ TaskIdle
    /\ StoreIdle
    /\ IterIdle
    /\ NativeIdle
    /\ EventIdle
    /\ SizerIdle
    /\ FlatIdle
    /\ PromptIdle
    /\ GridIdle
    /\ dchan = "empty" /\ ddone = FALSE /\ dpc = "body" /\ dres = "none"
    /\ dk = "live" /\ dgot = FALSE /\ dret = DNone /\ dtickNo = 0
    /\ dwake = FALSE /\ nInterrupt = 0 /\ dAtDrop = "none"

\* what no step of the DuckTask changes
duckRest == << streamVars, loaderVars, taskVars, storeVars,
        iterVars,
        nativeVars,
        eventVars,
        sizerVars,
        flatVars,
        promptVars,
        gridVars >>

\* let result = task(source, con)
DBody ==
    /\ dpc = "body"
    /\ dres' \in DuckResults
    /\ dpc' = "s1"
    /\ UNCHANGED << duckRest, dchan, ddone, dk, dgot, dret, dtickNo, dwake,
                    nInterrupt, dAtDrop >>

\* the task body panics: the thread unwinds and the sender is dropped
DPanic ==
    /\ dpc = "body"
    /\ dpc' = "done"
    /\ dchan' = IF dchan = "closed" THEN dchan ELSE "disconnected"
    /\ UNCHANGED << duckRest, ddone, dres, dk, dgot, dret, dtickNo, dwake,
                    nInterrupt, dAtDrop >>

\* one statement of the worker thread after the body
WorkerStep(stmt) ==
    IF stmt = "store"
    THEN /\ ddone' = TRUE
         /\ UNCHANGED dchan
    ELSE /\ dchan' = IF dchan = "closed" THEN dchan ELSE dres
         /\ UNCHANGED ddone

DStep1 ==
    /\ dpc = "s1"
    /\ WorkerStep(WorkerOrder[1])
    /\ dpc' = "s2"
    /\ UNCHANGED << duckRest, dres, dk, dgot, dret, dtickNo, dwake,
                    nInterrupt, dAtDrop >>

DStep2 ==
    /\ dpc = "s2"
    /\ WorkerStep(WorkerOrder[2])
    /\ dpc' = IF SendOk' THEN "unpark" ELSE "done"
    /\ UNCHANGED << duckRest, dres, dk, dgot, dret, dtickNo, dwake,
                    nInterrupt, dAtDrop >>

\* wake.unpark()
DUnpark ==
    /\ dpc = "unpark"
    /\ dwake' = TRUE
    /\ dpc' = "done"
    /\ UNCHANGED << duckRest, dchan, ddone, dres, dk, dgot, dret, dtickNo,
                    nInterrupt, dAtDrop >>

\* DuckTask::tick
DTick ==
    /\ dk = "live"
    /\ dret' = DuckTick(dchan)
    /\ dchan' = DReceived(dchan)
    /\ dgot' = (dgot \/ dchan \in DuckResults)
    /\ dtickNo' = 1 - dtickNo
    /\ UNCHANGED << duckRest, ddone, dpc, dres, dk, dwake, nInterrupt,
                    dAtDrop >>

\* Drop for DuckTask, then its fields (the receiver) go
DDrop ==
    /\ dk = "live"
    /\ \E v \in DoneLoads :
          nInterrupt' = IF ~v THEN nInterrupt + 1 ELSE nInterrupt
    /\ dAtDrop' = dpc
    /\ dk' = "dropped"
    /\ dchan' = IF dchan = "empty" THEN "closed" ELSE dchan
    /\ UNCHANGED << duckRest, ddone, dpc, dres, dgot, dret, dtickNo, dwake >>

\* the wake thread's park() returns
DListen ==
    /\ dwake
    /\ dwake' = FALSE
    /\ UNCHANGED << duckRest, dchan, ddone, dpc, dres, dk, dgot, dret,
                    dtickNo, nInterrupt, dAtDrop >>

DuckNext ==
    \/ DBody
    \/ DPanic
    \/ DStep1
    \/ DStep2
    \/ DUnpark
    \/ DTick
    \/ DDrop
    \/ DListen

DuckSpec == DuckInit /\ [][DuckNext]_vars

\* C18: a drop sends at most one interrupt; it sends exactly one when the
\* worker was still in the task body, and none when a tick() had already
\* taken the result; a result is in the channel only with the done flag set.
C18_InterruptOnlyUnfinished ==
    /\ nInterrupt <= 1
    /\ dk = "live" => nInterrupt = 0
    /\ (dk = "dropped" /\ dAtDrop = "body") => nInterrupt = 1
    /\ (dk = "dropped" /\ dgot) => nInterrupt = 0
    /\ (dchan \in DuckResults \/ dgot) => ddone

C18_Witness ==
    /\ dk = "dropped"
    /\ dgot
    /\ nInterrupt = 0
    /\ dret \in {DSome("Ok"), DSome("Err")}

\* C19: a tick() on an empty channel whose sender lives returns None, a
\* tick() on a channel holding the worker's result returns Some(that
\* result), a tick() on a channel whose sender went without sending returns
\* Some(Err("Task failed without error")); once the worker thread has ended
\* the channel is never empty, so no tick() reports 'no result yet' forever.
C19_TickResolves ==
    /\ [](dpc = "done" => dchan # "empty")
    /\ [][dtickNo' # dtickNo =>
            /\ dchan = "empty" => dret' = DNone
            /\ dchan \in DuckResults => (dret' = DSome(dres) /\ dchan = dres)
            /\ dchan = "disconnected" => dret' = DSome(Disconnected)]_vars

C19_Witness ==
    /\ dpc = "done"
    /\ dchan = "disconnected"
    /\ dret = DSome(Disconnected)
    /\ dk = "live"

\* ===================================================================
\* DataFrame handles over shared DataFrameImpl (source.rs)
\* ===================================================================
MaxIter == 2            \* batches one extend / concat / collect is given

MaxHeld == 3            \* batches a store holds
MaxQueue == 3           \* capacity of the event channel (sync_channel(100), scaled down)
MaxWakes == 2           \* results a background task publishes, each followed by a wake
MaxHist == 3            \* largest capacity N of a History
MaxLine == 3            \* longest line a Prompt holds
MaxCols == 4            \* columns of the frame a grid shows
MaxRows == 3            \* rows of the frame a grid shows, and rows of its view
GridCols == 3           \* columns of the frame a FrameGrid draws

Handles == {1, 2}

OtherSchema == "B"

\* rows of a batch given to a store
StoreRows == {1, ChunkRows}

\* batches given to a store: of either schema, or without columns
Batches ==
    [id : {0}, rows : StoreRows, schema : {SrcSchema, OtherSchema}]
        \cup {[id |-> 0, rows |-> ChunkRows, schema |-> EmptySchema]}

Iters == UNION {[1..n -> Batches] : n \in 0..MaxIter}

\* assert_eq!(self.schema, batch.schema()) fails
Mismatch(impl, batch) ==
    impl.schema # EmptySchema /\ impl.schema # batch.schema

\* the batches of iter that DataFrameImpl::extend pushes before a push panics
RECURSIVE Accepted(_, _)
Accepted(impl, iter) ==
    IF iter = << >> THEN << >>
    ELSE IF Mismatch(impl, Head(iter)) THEN << >>
    ELSE << Head(iter) >> \o Accepted(push(impl, Head(iter)), Tail(iter))

Panics(impl, iter) == Len(Accepted(impl, iter)) < Len(iter)

\* DataFrameImpl::extend, as far as it gets
ImplExtend(impl, iter) == extend(impl, Accepted(impl, iter))

\* Arc::get_mut fails: another handle points to the same DataFrameImpl
Shared(h) ==
    \E g \in Handles \ {h} : sval[g] # NoStore /\ sarc[g] = sarc[h]

\* Arc::new: an identity no other handle uses
FreshArc(h) ==
    CHOOSE i \in Handles :
        \A g \in Handles \ {h} : sval[g] # NoStore => sarc[g] # i

StoreInit ==
    /\ StreamIdle
    /\ LoaderIdle
    /\ TaskIdle
    /\ DuckIdle
    /\ IterIdle
    /\ NativeIdle
    /\ EventIdle
    /\ SizerIdle
    /\ FlatIdle
    /\ PromptIdle
    /\ GridIdle
    /\ sval = << DataFrameDefault, NoStore >>
    /\ sarc = << 1, 0 >>
    /\ spanic = FALSE

\* what no step of a store changes
storeRest == << streamVars, loaderVars, taskVars, duckVars,
        iterVars,
        nativeVars,
        eventVars,
        sizerVars,
        flatVars,
        promptVars,
        gridVars >>

\* FromIterator for DataFrame, into a free handle
SFromIter(g, iter) ==
    /\ ~spanic
    /\ sval[g] = NoStore
    /\ IF Panics(DataFrameDefault, iter)
       THEN /\ spanic' = TRUE
            /\ UNCHANGED << sval, sarc >>
       ELSE /\ sval' = [sval EXCEPT ![g] = from_iter(iter)]
            /\ sarc' = [sarc EXCEPT ![g] = FreshArc(g)]
            /\ UNCHANGED spanic
    /\ UNCHANGED storeRest

\* DataFrame::clone
SClone(h, g) ==
    /\ ~spanic
    /\ sval[h] # NoStore
    /\ sval[g] = NoStore
    /\ sval' = [sval EXCEPT ![g] = sval[h]]
    /\ sarc' = [sarc EXCEPT ![g] = sarc[h]]
    /\ UNCHANGED << storeRest, spanic >>

\* DataFrame::concat, the result going into a free handle
SConcat(h, g, iter) ==
    /\ ~spanic
    /\ sval[h] # NoStore
    /\ sval[g] = NoStore
    /\ Len(sval[h].batchs) + Len(iter) <= MaxHeld
    /\ IF Panics(sval[h], iter)
       THEN /\ spanic' = TRUE
            /\ UNCHANGED << sval, sarc >>
       ELSE /\ sval' = [sval EXCEPT ![g] = ImplExtend(sval[h], iter)]
            /\ sarc' = [sarc EXCEPT ![g] = FreshArc(g)]
            /\ UNCHANGED spanic
    /\ UNCHANGED storeRest

\* DataFrame::extend: in place when the Arc is unique, else through concat
SExtend(h, iter) ==
    /\ ~spanic
    /\ sval[h] # NoStore
    /\ Len(sval[h].batchs) + Len(iter) <= MaxHeld
    /\ spanic' = Panics(sval[h], iter)
    /\ IF ~Shared(h)
       THEN /\ sval' = [g \in Handles |->
                          IF sval[g] # NoStore /\ sarc[g] = sarc[h]
                          THEN ImplExtend(sval[h], iter)
                          ELSE sval[g]]
            /\ UNCHANGED sarc
       ELSE IF Panics(sval[h], iter)
       THEN UNCHANGED << sval, sarc >>
       ELSE /\ sval' = [sval EXCEPT ![h] = ImplExtend(sval[h], iter)]
            /\ sarc' = [sarc EXCEPT ![h] = FreshArc(h)]
    /\ UNCHANGED storeRest

\* a handle is dropped
SDrop(h) ==
    /\ ~spanic
    /\ sval[h] # NoStore
    /\ sval' = [sval EXCEPT ![h] = NoStore]
    /\ sarc' = [sarc EXCEPT ![h] = 0]
    /\ UNCHANGED << storeRest, spanic >>

StoreNext ==
    \/ \E g \in Handles, iter \in Iters : SFromIter(g, iter)
    \/ \E h, g \in Handles : SClone(h, g)
    \/ \E h, g \in Handles, iter \in Iters : SConcat(h, g, iter)
    \/ \E h \in Handles, iter \in Iters : SExtend(h, iter)
    \/ \E h \in Handles : SDrop(h)

StoreSpec == StoreInit /\ [][StoreNext]_vars

\* C20: for every store handle, after any sequence of collect, clone,
\* concat, extend and drop, num_rows() is the sum of the row counts of the
\* batches the store holds.
C20_RowCountIsSum ==
    \A h \in Handles :
        sval[h] # NoStore => num_rows(sval[h]) = SumRows(sval[h].batchs)

C20_Witness ==
    /\ sval[1] # NoStore
    /\ sval[2] # NoStore
    /\ sarc[1] # sarc[2]
    /\ Len(sval[1].batchs) = 3
    /\ Len(sval[2].batchs) = 2
    /\ SubSeq(sval[1].batchs, 1, 2) = sval[2].batchs
    /\ num_rows(sval[1]) = 4
    /\ num_rows(sval[2]) = 3

\* every chunk a store holds has the store's schema
OneSchema(d) == \A i \in DOMAIN d.batchs : d.batchs[i].schema = d.schema

\* C21: once a store holds a chunk its schema is fixed: whatever is done
\* through a handle, the store behind it keeps its schema, keeps the chunks
\* it held as a prefix of the chunks it holds, and holds only chunks of its
\* schema (a chunk of another schema is never appended and never replaces
\* the chunks held).
C21_SchemaFixedByFirstChunk ==
    [][\A h \in Handles :
          (sval[h] # NoStore /\ sval[h].batchs # << >> /\ sval'[h] # NoStore)
              => /\ sval'[h].schema = sval[h].schema
                 /\ IsPrefix(sval[h].batchs, sval'[h].batchs)
                 /\ OneSchema(sval'[h])]_vars

\* C22: DataFrame::extend through handle h leaves what every other handle
\* sees unchanged; it keeps the Arc when h is its only owner and moves h to
\* a new Arc when the store is shared; and, unless a push panics, the store
\* behind h afterwards holds the chunks it held followed by the new ones.
C22_ExtendIsCopyOnWrite ==
    [][\A h \in Handles, iter \in Iters :
          SExtend(h, iter) =>
              /\ \A g \in Handles \ {h} :
                     sval'[g] = sval[g] /\ sarc'[g] = sarc[g]
              /\ ~spanic' =>
                     /\ Shared(h) <=> sarc'[h] # sarc[h]
                     /\ sval'[h].batchs = sval[h].batchs \o iter]_vars

\* ===================================================================
\* DataFrame::iter (source.rs)
\* ===================================================================
Columns == {1, 2}

\* the value in row r of column idx of batch b
Cell(b, idx, r) == << idx, b.id, r >>

\* c.columns()[idx]
ColumnOf(b, idx) == [r \in 1..b.rows |-> Cell(b, idx, r)]

\* array_to_iter: the values of the array, in order, each as a Ty
array_to_iter(arr) == [i \in DOMAIN arr |-> [ty |-> arr[i]]]

RECURSIVE FlatMap(_, _)
FlatMap(chunks, idx) ==
    IF chunks = << >> THEN << >>
    ELSE array_to_iter(ColumnOf(Head(chunks), idx)) \o FlatMap(Tail(chunks), idx)

\* Iterator::skip
SkipN(s, n) == SubSeq(s, n + 1, Len(s))

\* skip -= a.num_rows()
\* faulty variant: the rows of a skipped batch are not taken off skip
SkipLeft_keep(skip, rows) ==
    skip

SkipLeft(skip, rows) ==
    skip - rows

\* batchs.iter().position(..): the first batch with more rows than the skip
\* left (0 when there is none), and the skip left at that point
RECURSIVE Position(_, _, _)
Position(batchs, i, skip) ==
    IF i > Len(batchs) THEN [pos |-> 0, skip |-> skip]
    ELSE IF batchs[i].rows > skip THEN [pos |-> i, skip |-> skip]
    ELSE Position(batchs, i + 1, SkipLeft(skip, batchs[i].rows))

\* DataFrame::iter(idx, skip)
DfIter(d, idx, skip) ==
    LET p == Position(d.batchs, 1, skip)
        chunks == IF p.pos # 0
                  THEN SubSeq(d.batchs, p.pos, Len(d.batchs))
                  ELSE << >>
    IN SkipN(FlatMap(chunks, idx), p.skip)

\* rows skip, skip+1, .., num_rows-1 (0-based) of column idx
RowsFrom(d, idx, skip) ==
    LET all == FlatMap(d.batchs, idx) IN
    [k \in 1..Max(num_rows(d) - skip, 0) |-> all[skip + k]]

IterInit ==
    /\ StreamIdle
    /\ LoaderIdle
    /\ TaskIdle
    /\ DuckIdle
    /\ StoreIdle
    /\ NativeIdle
    /\ EventIdle
    /\ SizerIdle
    /\ FlatIdle
    /\ PromptIdle
    /\ GridIdle
    /\ idf = DataFrameDefault /\ iidx = 1 /\ iskip = 0 /\ iout = << >>

\* what no step of the iteration changes
iterRest == << streamVars, loaderVars, taskVars, duckVars, storeVars,
        nativeVars,
        eventVars,
        sizerVars,
        flatVars,
        promptVars,
        gridVars >>

\* the store receives one more chunk, possibly an empty one
IPush(rows) ==
    /\ Len(idf.batchs) < NChunks
    /\ idf' = push(idf, [id |-> Len(idf.batchs) + 1, rows |-> rows,
                         schema |-> SrcSchema])
    /\ UNCHANGED << iterRest, iidx, iskip, iout >>

\* df.iter(idx, skip), collected
IIter(idx, skip) ==
    /\ iidx' = idx
    /\ iskip' = skip
    /\ iout' = DfIter(idf, idx, skip)
    /\ UNCHANGED << iterRest, idf >>

IterNext ==
    \/ \E rows \in 0..ChunkRows : IPush(rows)
    \/ \E idx \in Columns, skip \in 0..(num_rows(idf) + 1) : IIter(idx, skip)

IterSpec == IterInit /\ [][IterNext]_vars

\* C23: iter(idx, skip) yields exactly the values of rows skip .. num_rows-1
\* of column idx in row order, whatever the chunk boundaries and empty
\* chunks are, and nothing when skip is at least num_rows: for every store,
\* column and skip, and for each call made.
C23_IterYieldsRowsFromSkip ==
    /\ [](\A idx \in Columns, skip \in 0..(num_rows(idf) + 1) :
           /\ DfIter(idf, idx, skip) = RowsFrom(idf, idx, skip)
           /\ skip >= num_rows(idf) => DfIter(idf, idx, skip) = << >>)
    /\ [][\A idx \in Columns, skip \in 0..(num_rows(idf) + 1) :
             IIter(idx, skip) => iout' = RowsFrom(idf, idx, skip)]_vars

\* a call that skips past a first chunk and an empty chunk into a third
C23_Witness ==
    /\ Len(idf.batchs) = 3
    /\ idf.batchs[1].rows = 2
    /\ idf.batchs[2].rows = 0
    /\ idf.batchs[3].rows = 2
    /\ iskip = 3
    /\ iout = << [ty |-> << iidx, 3, 2 >>] >>

\* ===================================================================
\* Native handles (duckdb.rs): Connection, its DB, the Chunks cursor
\* ===================================================================

\* the Connection in use and a try_clone of it
Cons == {1, 2}

\* the ways the source uses a Connection: con.execute (source.rs:293),
\* Connection::frame, and the cursor returned by Source::load
Ops == {"execute", "frame", "load"}

\* the native calls of each method that can fail
FaultsOf(op) ==
    CASE op = "execute" -> {"none", "query"}
      [] op = "frame" -> {"none", "query", "fetch"}
      [] op = "load" -> {"none", "prepare", "pending", "execute", "fetch"}

\* a native call hands out a handle; the engine fills it on failure too (it
\* then holds the error message) and it has to be destroyed all the same
Acquire(h, k) == [h EXCEPT ![k].acq = @ + 1]

\* duckdb_destroy_*: nothing happens on a null handle, any other call counts
Destroy(h, k) == IF h[k].acq = 0 THEN h ELSE [h EXCEPT ![k].rel = @ + 1]

NativeInit ==
    /\ npc = "start"
    /\ nop \in Ops
    /\ nfault \in FaultsOf(nop)
    /\ nlen \in 0..NChunks
    /\ nop = "execute" => nlen = 0
    /\ nfault = "fetch" => nlen > 0
    /\ nh = NoHandles
    /\ ncon = << "none", "none" >>
    /\ ndb = NoDB
    /\ ncur = NoCursor
    /\ nreported = "none"
    /\ nret = "none"
    /\ StreamIdle
    /\ LoaderIdle
    /\ TaskIdle
    /\ DuckIdle
    /\ StoreIdle
    /\ IterIdle
    /\ EventIdle
    /\ SizerIdle
    /\ FlatIdle
    /\ PromptIdle
    /\ GridIdle

nativeRest == << streamVars, loaderVars, taskVars, duckVars, storeVars,
        iterVars,
        eventVars,
        sizerVars,
        flatVars,
        promptVars,
        gridVars >>

\* Connection::mem: DB::mem opens the database, connect makes the connection
NMem ==
    /\ npc = "start"
    /\ ndb' = [refs |-> 1, opens |-> 1, closes |-> 0]
    /\ ncon' = [ncon EXCEPT ![1] = "open"]
    /\ npc' = "have_con"
    /\ UNCHANGED << nativeRest, nop, nfault, nlen, nh, ncur, nreported, nret >>

\* Connection::try_clone: a second connection on the same Arc<DB>
NClone ==
    /\ npc # "start"
    /\ ncon[1] = "open"
    /\ ncon[2] = "none"
    /\ ncon' = [ncon EXCEPT ![2] = "open"]
    /\ ndb' = [ndb EXCEPT !.refs = @ + 1]
    /\ UNCHANGED << nativeRest, npc, nop, nfault, nlen, nh, ncur, nreported,
                    nret >>

\* the method is entered
NCall ==
    /\ npc = "have_con"
    /\ npc' = IF nop = "load" THEN "prepare" ELSE "query"
    /\ UNCHANGED << nativeRest, nop, nfault, nlen, nh, ncon, ndb, ncur,
                    nreported, nret >>

\* duckdb_query in execute and in frame.  On failure execute goes on to
\* destroy the result; frame returns the error at once.
NQuery ==
    /\ npc = "query"
    /\ nh' = Acquire(nh, "result")
    /\ IF nop = "execute"
       THEN /\ npc' = "destroy_query"
            /\ nret' = IF nfault = "query" THEN "err" ELSE "ok"
       ELSE IF nfault = "query"
            THEN npc' = "drop_con" /\ nret' = "err"
            ELSE npc' = "get_chunk" /\ UNCHANGED nret
    /\ UNCHANGED << nativeRest, nop, nfault, nlen, ncon, ndb, ncur, nreported >>

\* execute: duckdb_destroy_result on either branch, then the return
NDestroyQuery ==
    /\ npc = "destroy_query"
    /\ nh' = Destroy(nh, "result")
    /\ npc' = "drop_con"
    /\ UNCHANGED << nativeRest, nop, nfault, nlen, ncon, ndb, ncur, nreported,
                    nret >>

\* frame: duckdb_result_get_chunk for the next index, or the end of the range;
\* a null chunk becomes an Err that `.map(|d| d.unwrap())` turns into a panic
NGetChunk ==
    /\ npc = "get_chunk"
    /\ IF ncur.fetched = nlen
       THEN npc' = "drop_con" /\ nret' = "ok" /\ UNCHANGED nh
       ELSE IF nfault = "fetch"
            THEN npc' = "drop_con" /\ nret' = "panic" /\ UNCHANGED nh
            ELSE /\ nh' = Acquire(nh, "chunk")
                 /\ npc' = "destroy_chunk"
                 /\ UNCHANGED nret
    /\ UNCHANGED << nativeRest, nop, nfault, nlen, ncon, ndb, ncur, nreported >>

\* duckdb_destroy_data_chunk after data_chunk_to_arrow, in frame and in
\* Chunks::next
NDestroyChunk ==
    /\ npc = "destroy_chunk"
    /\ nh' = Destroy(nh, "chunk")
    /\ ncur' = [ncur EXCEPT !.fetched = @ + 1]
    /\ npc' = IF nop = "frame" THEN "get_chunk" ELSE "cursor"
    /\ UNCHANGED << nativeRest, nop, nfault, nlen, ncon, ndb, nreported, nret >>

\* chunks: duckdb_prepare
NPrepare ==
    /\ npc = "prepare"
    /\ nh' = Acquire(nh, "stmt")
    /\ IF nfault = "prepare"
       THEN npc' = "destroy_prepare" /\ nret' = "err"
       ELSE npc' = "pending" /\ UNCHANGED nret
    /\ UNCHANGED << nativeRest, nop, nfault, nlen, ncon, ndb, ncur, nreported >>

\* chunks: duckdb_pending_prepared_streaming
NPending ==
    /\ npc = "pending"
    /\ nh' = Acquire(nh, "pending")
    /\ IF nfault = "pending"
       THEN npc' = "destroy_prepare" /\ nret' = "err"
       ELSE npc' = "execute_pending" /\ UNCHANGED nret
    /\ UNCHANGED << nativeRest, nop, nfault, nlen, ncon, ndb, ncur, nreported >>

\* chunks: duckdb_execute_pending, called straight after the pending result
\* was created.  Nothing in chunks calls duckdb_pending_execute_task, so no
\* signal was ever reported.
NExecutePending ==
    /\ npc = "execute_pending"
    /\ nh' = Acquire(nh, "result")
    /\ IF nfault = "execute"
       THEN npc' = "destroy_result" /\ nret' = "err"
       ELSE npc' = "destroy_prepare" /\ nret' = "ok"
    /\ UNCHANGED << nativeRest, nop, nfault, nlen, ncon, ndb, ncur, nreported >>

\* chunks: duckdb_destroy_result when duckdb_execute_pending failed
NDestroyResult ==
    /\ npc = "destroy_result"
    /\ nh' = Destroy(nh, "result")
    /\ npc' = "destroy_prepare"
    /\ UNCHANGED << nativeRest, nop, nfault, nlen, ncon, ndb, ncur, nreported,
                    nret >>

\* chunks: duckdb_destroy_prepare, on every path
NDestroyPrepare ==
    /\ npc = "destroy_prepare"
    /\ nh' = Destroy(nh, "stmt")
    /\ npc' = "destroy_pending"
    /\ UNCHANGED << nativeRest, nop, nfault, nlen, ncon, ndb, ncur, nreported,
                    nret >>

\* chunks: duckdb_destroy_pending, on every path, then `tmp.map(..)`: the
\* cursor exists when tmp is Ok.  Back in Source::load the statement ends.
NDestroyPending ==
    /\ npc = "destroy_pending"
    /\ nh' = Destroy(nh, "pending")
    /\ ncur' = IF nret = "ok" THEN [ncur EXCEPT !.state = "live"] ELSE ncur
    /\ npc' = "drop_con"
    /\ UNCHANGED << nativeRest, nop, nfault, nlen, ncon, ndb, nreported, nret >>

\* impl Drop for Connection: duckdb_disconnect.  The connection in use is a
\* temporary (`self.con()?`) or a local of the caller: it is dropped when the
\* call is over; the clone belongs to someone else and may go at any time.
NDisconnect(c) ==
    /\ ncon[c] = "open"
    /\ c = 1 => npc = "drop_con"
    /\ ncon' = [ncon EXCEPT ![c] = "disconnected"]
    /\ UNCHANGED << nativeRest, npc, nop, nfault, nlen, nh, ndb, ncur,
                    nreported, nret >>

\* the drop glue of Connection: its Arc<DB> is released, and impl Drop for DB
\* closes the database when that was the last one
NDropDB(c) ==
    /\ ncon[c] = "disconnected"
    /\ ncon' = [ncon EXCEPT ![c] = "dropped"]
    /\ ndb' = [ndb EXCEPT !.refs = @ - 1,
                          !.closes = IF ndb.refs = 1 THEN @ + 1 ELSE @]
    /\ npc' = IF c # 1 THEN npc
              ELSE IF ncur.state = "live" THEN "cursor" ELSE "end"
    /\ UNCHANGED << nativeRest, nop, nfault, nlen, nh, ncur, nreported, nret >>

\* Chunks::next: duckdb_stream_fetch_chunk.  A null chunk is the end or an
\* error; the worker then returns and drops the cursor.
NFetch ==
    /\ npc = "cursor"
    /\ ncur.state = "live"
    /\ IF ncur.fetched = nlen \/ nfault = "fetch"
       THEN npc' = "drop_chunks" /\ UNCHANGED nh
       ELSE nh' = Acquire(nh, "chunk") /\ npc' = "destroy_chunk"
    /\ ncur' = [ncur EXCEPT !.late = @ \/ ncon[1] # "open"]
    /\ UNCHANGED << nativeRest, nop, nfault, nlen, ncon, ndb, nreported, nret >>

\* impl Drop for Chunks: duckdb_destroy_result, when the worker returns or
\* when the frame is dropped before the end
NDropChunks ==
    /\ npc \in {"cursor", "drop_chunks"}
    /\ ncur.state = "live"
    /\ nh' = Destroy(nh, "result")
    /\ ncur' = [ncur EXCEPT !.state = "destroyed",
                            !.late = @ \/ ncon[1] # "open"]
    /\ npc' = "end"
    /\ UNCHANGED << nativeRest, nop, nfault, nlen, ncon, ndb, nreported, nret >>

NativeNext ==
    \/ NMem
    \/ NClone
    \/ NCall
    \/ NQuery
    \/ NDestroyQuery
    \/ NGetChunk
    \/ NDestroyChunk
    \/ NPrepare
    \/ NPending
    \/ NExecutePending
    \/ NDestroyResult
    \/ NDestroyPrepare
    \/ NDestroyPending
    \/ \E c \in Cons : NDisconnect(c)
    \/ \E c \in Cons : NDropDB(c)
    \/ NFetch
    \/ NDropChunks

NativeSpec == NativeInit /\ [][NativeNext]_vars

\* every handle of kind k that was acquired was destroyed exactly once
ReleasedOnce(k) == nh[k].rel = nh[k].acq

\* C25: every native handle acquired by execute, frame, chunks and
\* Chunks::next is released exactly once on every path: no handle is ever
\* destroyed twice, and when the call is over and the cursor (if any) is
\* gone, every handle acquired has been destroyed.
C25_HandlesReleasedOnce ==
    /\ \A k \in HandleKinds : nh[k].rel <= nh[k].acq
    /\ npc = "end" => \A k \in HandleKinds : ReleasedOnce(k)

\* C26: the cursor is never fetched from nor destroyed after its Connection
\* was disconnected; the database is closed only when no connection on it is
\* still connected, at most once, and exactly once when all are dropped.
C26_ReleaseMirrorsAcquisition ==
    /\ ~ncur.late
    /\ ndb.closes > 0 => \A c \in Cons : ncon[c] \in {"none", "dropped"}
    /\ ndb.closes <= 1
    /\ (ndb.opens = 1 /\ \A c \in Cons : ncon[c] \in {"none", "dropped"})
          => ndb.closes = 1

\* C27: chunks materializes the result only after a drive step reported
\* "ready".
C27_MaterializeOnlyWhenReady ==
    [][NExecutePending => nreported = "ready"]_vars

\* ===================================================================
\* Event listener (event.rs): Orchestrator, task_listener, event channel
\* ===================================================================

\* faulty variant: the task wakes the listener before it publishes
PublishOrder_wakeFirst == << "wake", "publish" >>

\* what a background task does for each result: it publishes it (worker:
\* `pending.lock()...` then `orchestrator.wake()`; Orchestrator::task:
\* `sender.send(result)` then `wake.unpark()`)
PublishOrder == << "publish", "wake" >>

\* an Event::Task offered after the wake that followed result n, and any
\* terminal or file-system event
TaskEvent(n) == [kind |-> "Task", need |-> n]
OtherEvent == [kind |-> "Other", need |-> 0]

EventInit ==
    /\ etoken = FALSE
    /\ elpc = "park"
    /\ echan = << >>
    /\ epub = 0
    /\ eiter = 1
    /\ ewstep = 1
    /\ ewakes = 0
    /\ ewoken = FALSE
    /\ ecpc = "recv"
    /\ eneed = 0
    /\ eseen = 0
    /\ edropped = FALSE
    /\ StreamIdle
    /\ LoaderIdle
    /\ TaskIdle
    /\ DuckIdle
    /\ StoreIdle
    /\ IterIdle
    /\ NativeIdle
    /\ SizerIdle
    /\ FlatIdle
    /\ PromptIdle
    /\ GridIdle

eventRest == << streamVars, loaderVars, taskVars, duckVars, storeVars,
        iterVars, nativeVars,
        sizerVars,
        flatVars,
        promptVars,
        gridVars >>

\* the task moves to its next step, its next result, or returns
Advance ==
    IF ewstep = 1 THEN ewstep' = 2 /\ UNCHANGED eiter
    ELSE IF eiter < MaxWakes THEN ewstep' = 1 /\ eiter' = eiter + 1
    ELSE ewstep' = 3 /\ UNCHANGED eiter

\* the task publishes result number eiter (under the mutex, or by the send)
EPublish ==
    /\ ewstep \in 1..2
    /\ PublishOrder[ewstep] = "publish"
    /\ epub' = epub + 1
    /\ Advance
    /\ UNCHANGED << eventRest, etoken, elpc, echan, ewakes, ewoken, ecpc,
                    eneed, eseen, edropped >>

\* Orchestrator::wake: unpark of the task_listener thread
EWake ==
    /\ ewstep \in 1..2
    /\ PublishOrder[ewstep] = "wake"
    /\ etoken' = TRUE
    /\ ewakes' = eiter
    /\ ewoken' = TRUE
    /\ Advance
    /\ UNCHANGED << eventRest, elpc, echan, epub, ecpc, eneed, eseen,
                    edropped >>

\* task_listener: `std::thread::park()` returns by consuming the token
ELPark ==
    /\ elpc = "park"
    /\ etoken
    /\ etoken' = FALSE
    /\ elpc' = "send"
    /\ UNCHANGED << eventRest, echan, epub, eiter, ewstep, ewakes, ewoken,
                    ecpc, eneed, eseen, edropped >>

\* park() may also return spuriously
ELSpurious ==
    /\ elpc = "park"
    /\ ~etoken
    /\ elpc' = "send"
    /\ UNCHANGED << eventRest, etoken, echan, epub, eiter, ewstep, ewakes,
                    ewoken, ecpc, eneed, eseen, edropped >>

\* task_listener: `sender.try_send(Event::Task).ok()`: queued when there is
\* room, given up otherwise
ELOffer ==
    /\ elpc = "send"
    /\ IF Len(echan) < MaxQueue
       THEN echan' = Append(echan, TaskEvent(ewakes)) /\ UNCHANGED edropped
       ELSE edropped' = TRUE /\ UNCHANGED echan
    /\ ewoken' = FALSE
    /\ elpc' = "park"
    /\ UNCHANGED << eventRest, etoken, epub, eiter, ewstep, ewakes, ecpc,
                    eneed, eseen >>

\* fs_listener and term_listener: the blocking `sender.send(..)`
EOther ==
    /\ Len(echan) < MaxQueue
    /\ echan' = Append(echan, OtherEvent)
    /\ UNCHANGED << eventRest, etoken, elpc, epub, eiter, ewstep, ewakes,
                    ewoken, ecpc, eneed, eseen, edropped >>

\* the consumer's loop takes the next event from the channel
ERecv ==
    /\ ecpc = "recv"
    /\ echan # << >>
    /\ eneed' = Head(echan).need
    /\ echan' = Tail(echan)
    /\ ecpc' = "tick"
    /\ UNCHANGED << eventRest, etoken, elpc, epub, eiter, ewstep, ewakes,
                    ewoken, eseen, edropped >>

\* and ticks its tasks: it reads what was published (under the mutex, or by
\* try_recv)
ETick ==
    /\ ecpc = "tick"
    /\ eseen' = epub
    /\ ecpc' = "recv"
    /\ UNCHANGED << eventRest, etoken, elpc, echan, epub, eiter, ewstep,
                    ewakes, ewoken, eneed, edropped >>

EventNext ==
    \/ EPublish
    \/ EWake
    \/ ELPark
    \/ ELSpurious
    \/ ELOffer
    \/ EOther
    \/ ERecv
    \/ ETick

\* the listener thread runs when it can; a spurious return is never owed
EventSpec ==
    EventInit /\ [][EventNext]_vars /\ WF_vars(ELPark) /\ WF_vars(ELOffer)

\* C28: every wake is followed by an offer of Event::Task to the channel; an
\* offer is given up only when the channel is full; and the tick that follows
\* a received event sees every result published before the wakes that
\* preceded the offer (wakes may coalesce into one event).
C28_WakeReachesConsumer ==
    /\ ewoken ~> ~ewoken
    /\ [][(ELOffer /\ echan' = echan) => Len(echan) = MaxQueue]_vars
    /\ [][ETick => eseen' >= eneed]_vars

\* two wakes coalesced into one event that the consumer received and ticked
\* on, seeing both results, after an earlier offer had been dropped
C28_Witness ==
    /\ edropped
    /\ ecpc = "recv" /\ eneed = 2 /\ eseen = 2
    /\ ~ewoken /\ ewstep = 3

\* ===================================================================
\* Sizer (grid/sizer.rs): column sizes from observed lengths
\* ===================================================================

\* `let max = if fill { usize::MAX } else { 25 }`
FitMax == 25

\* `stat.content.max(stat.header).min(5)`
MinCap == 5

\* usize::MAX stands above every length in play
UsizeMax == 1000

\* observed content and header lengths, around the two thresholds
Lens == {0, MinCap - 2, MinCap + 1, FitMax + 3}

\* space left for Sizer::fill
Avails == {0, 1, FitMax}

Fit == [tag |-> "Fit", n |-> 0]
Fill == [tag |-> "Fill", n |-> 0]
Fixe(n) == [tag |-> "Fixe", n |-> n]

\* the entry Vec::resize fills in
NewCol == [content |-> 0, header |-> 0, size |-> 0, con |-> Fit]

\* Sizer::min_size
min_size(col) == Min(Max(col.content, col.header), MinCap)

\* faulty variant: the size of the constraint is returned as it is
get_size_nomin(col, fit_content, fill) ==
    LET max == IF fill THEN UsizeMax ELSE FitMax IN
    CASE col.con.tag = "Fit" /\ fit_content -> Min(col.content, max)
      [] col.con.tag = "Fit" /\ ~fit_content ->
            Min(Max(col.header, col.content), max)
      [] col.con.tag = "Fill" -> Max(col.header, col.content)
      [] col.con.tag = "Fixe" -> col.con.n

\* Sizer::get_size
get_size(col, fit_content, fill) ==
    LET max == IF fill THEN UsizeMax ELSE FitMax
        sz == CASE col.con.tag = "Fit" /\ fit_content -> Min(col.content, max)
                [] col.con.tag = "Fit" /\ ~fit_content ->
                      Min(Max(col.header, col.content), max)
                [] col.con.tag = "Fill" -> Max(col.header, col.content)
                [] col.con.tag = "Fixe" -> col.con.n
    IN Max(sz, min_size(col))

SizerInit ==
    /\ zcols = << >>
    /\ zfit = FALSE
    /\ zlast = -1
    /\ zret = 0
    /\ StreamIdle
    /\ LoaderIdle
    /\ TaskIdle
    /\ DuckIdle
    /\ StoreIdle
    /\ IterIdle
    /\ NativeIdle
    /\ EventIdle
    /\ FlatIdle
    /\ PromptIdle
    /\ GridIdle

sizerRest == << streamVars, loaderVars, taskVars, duckVars, storeVars,
        iterVars, nativeVars, eventVars,
        flatVars,
        promptVars,
        gridVars >>

\* Sizer::fit for column 0
ZFit(clen, header_len) ==
    LET cols == IF zcols = << >> THEN << NewCol >> ELSE zcols
        synced == [cols[1] EXCEPT !.content = Max(@, clen),
                                  !.header = Max(@, header_len)]
        size == get_size(synced, zfit, FALSE)
    IN /\ zcols' = << [synced EXCEPT !.size = size] >>
       /\ zret' = size
       /\ zlast' = size
       /\ UNCHANGED << sizerRest, zfit >>

\* Sizer::fill for column 0, once fit has made its entry
ZFill(available) ==
    /\ zcols # << >>
    /\ LET fill_size == get_size(zcols[1], zfit, TRUE)
           size == zcols[1].size
           missing == IF fill_size > size THEN fill_size - size ELSE 0
           grown == IF missing > 0 THEN size + Min(missing, available)
                    ELSE size
       IN /\ zcols' = << [zcols[1] EXCEPT !.size = grown] >>
          /\ zret' = grown
    /\ UNCHANGED << sizerRest, zfit, zlast >>

\* Sizer::cmd for column 0
ZCmd(cmd) ==
    /\ IF zcols = << >>
       THEN UNCHANGED zcols
       ELSE LET stat == zcols[1]
                con == CASE cmd = "Constrain" -> Fit
                         [] cmd = "Free" -> Fill
                         [] cmd = "Less" ->
                               Fixe(Max(IF stat.size > 0 THEN stat.size - 1
                                        ELSE 0, min_size(stat)))
                         [] cmd = "More" ->
                               Fixe(Min(stat.size + 1, stat.content))
            IN zcols' = << [stat EXCEPT !.con = con] >>
    /\ zlast' = -1
    /\ UNCHANGED << sizerRest, zfit, zret >>

\* Sizer::toggle
ZToggle ==
    /\ zfit' = ~zfit
    /\ zlast' = -1
    /\ UNCHANGED << sizerRest, zcols, zret >>

\* Sizer::reset
ZReset ==
    /\ zcols' = << >>
    /\ zlast' = -1
    /\ UNCHANGED << sizerRest, zfit, zret >>

\* Sizer::fit_current_size
ZFitCurrentSize ==
    /\ zcols' = [i \in 1..Len(zcols) |-> [zcols[i] EXCEPT !.content = 0]]
    /\ zlast' = -1
    /\ UNCHANGED << sizerRest, zfit, zret >>

SizerNext ==
    \/ \E clen \in Lens, header_len \in Lens : ZFit(clen, header_len)
    \/ \E available \in Avails : ZFill(available)
    \/ \E cmd \in {"Constrain", "Free", "Less", "More"} : ZCmd(cmd)
    \/ ZToggle
    \/ ZReset
    \/ ZFitCurrentSize

SizerSpec == SizerInit /\ [][SizerNext]_vars

\* C29: between two calls of cmd, toggle, reset and fit_current_size, the
\* sizes that successive fit calls return for a column never decrease,
\* whatever lengths are observed (and whatever fill does in between), and
\* every size returned is at least the column's minimum size.
C29_FitNeverShrinks ==
    [][\A clen \in Lens, header_len \in Lens :
          ZFit(clen, header_len) =>
             /\ zlast >= 0 => zret' >= zlast
             /\ zret' >= min_size(zcols'[1])]_vars

\* a column fixed below five cells by Less, whose content then grew past the
\* minimum: fit raised it to the minimum size
C29_Witness ==
    /\ zcols # << >>
    /\ zcols[1].con.tag = "Fixe"
    /\ zcols[1].con.n < MinCap
    /\ zcols[1].content > MinCap
    /\ zlast = MinCap
    /\ zret = MinCap

\* the size the next fit returns for the column when nothing longer is seen
NextSize == get_size(zcols'[1], zfit, FALSE)

\* C36: for a column that has been sized, Cmd::More never makes its next
\* size smaller than its current size, Cmd::Less never makes it larger, and
\* the resulting size is never below the column's minimum size.
C36_MoreGrowsLessShrinks ==
    [][\A cmd \in {"Less", "More"} :
          (ZCmd(cmd) /\ zcols # << >>) =>
             /\ cmd = "More" => NextSize >= zcols[1].size
             /\ cmd = "Less" => NextSize <= zcols[1].size
             /\ NextSize >= min_size(zcols'[1])]_vars

\* ===================================================================
\* Sizer of src/sizer.rs (the flat one: content, header, constraint)
\* ===================================================================

\* the column indexes in play
FlatCols == {0, 1}

\* observed lengths, below and above the limit of 25
FlatLens == {0, 3, FitMax + 3}

FlatCmds == {"Constrain", "Free", "Less", "More"}

Limit == [tag |-> "Limit", n |-> 0]

\* the entry `self.cols.resize(idx + 1, (0, 0, Constraint::Limit))` fills in
FlatNew == [content |-> 0, header |-> 0, con |-> Limit]

\* Sizer::get_size of src/sizer.rs
flat_get_size(col, fit_content) ==
    CASE col.con.tag = "Limit" /\ fit_content -> Min(col.content, FitMax)
      [] col.con.tag = "Limit" /\ ~fit_content ->
            Min(Max(col.header, col.content), FitMax)
      [] col.con.tag = "Fit" -> col.content
      [] col.con.tag = "Fixe" -> col.con.n

\* the constraint a command stands for, on a column that has an entry
FlatConstraint(col, cmd) ==
    CASE cmd = "Constrain" -> Limit
      [] cmd = "Free" -> Fit
      [] cmd = "Less" ->
            Fixe(IF flat_get_size(col, yfit) > 0
                 THEN flat_get_size(col, yfit) - 1 ELSE 0)
      [] cmd = "More" -> Fixe(flat_get_size(col, yfit) + 1)

FlatInit ==
    /\ ycols = << >>
    /\ yfit = FALSE
    /\ ypanic = FALSE
    /\ StreamIdle
    /\ LoaderIdle
    /\ TaskIdle
    /\ DuckIdle
    /\ StoreIdle
    /\ IterIdle
    /\ NativeIdle
    /\ EventIdle
    /\ SizerIdle
    /\ PromptIdle
    /\ GridIdle

flatRest == << streamVars, loaderVars, taskVars, duckVars, storeVars,
        iterVars, nativeVars, eventVars, sizerVars,
        promptVars,
        gridVars >>

\* Sizer::size
YSize(idx, clen, header_len) ==
    /\ ~ypanic
    /\ LET cols == IF idx >= Len(ycols)
                   THEN ycols \o [i \in 1..(idx + 1 - Len(ycols)) |-> FlatNew]
                   ELSE ycols
       IN ycols' = [cols EXCEPT ![idx + 1].content = Max(@, clen),
                                ![idx + 1].header = Max(@, header_len)]
    /\ UNCHANGED << flatRest, yfit, ypanic >>

\* Sizer::cmd: `if idx < self.cols.len() { return; }`, then `self.cols[idx]`
YCmd(idx, cmd) ==
    /\ ~ypanic
    /\ IF idx < Len(ycols)
       THEN UNCHANGED << ycols, ypanic >>
       ELSE ypanic' = TRUE /\ UNCHANGED ycols
    /\ UNCHANGED << flatRest, yfit >>

\* Sizer::toggle
YToggle ==
    /\ ~ypanic
    /\ yfit' = ~yfit
    /\ UNCHANGED << flatRest, ycols, ypanic >>

\* Sizer::reset
YReset ==
    /\ ~ypanic
    /\ ycols' = << >>
    /\ UNCHANGED << flatRest, yfit, ypanic >>

\* Sizer::fit
YFit ==
    /\ ~ypanic
    /\ ycols' = [i \in 1..Len(ycols) |-> [ycols[i] EXCEPT !.content = 0]]
    /\ UNCHANGED << flatRest, yfit, ypanic >>

FlatNext ==
    \/ \E idx \in FlatCols, clen \in FlatLens, header_len \in FlatLens :
          YSize(idx, clen, header_len)
    \/ \E idx \in FlatCols, cmd \in FlatCmds : YCmd(idx, cmd)
    \/ YToggle
    \/ YReset
    \/ YFit

FlatSpec == FlatInit /\ [][FlatNext]_vars

\* C37: Sizer.cmd of src/sizer.rs never panics; on a column that has no
\* entry yet it changes nothing, and on a column that has one it replaces
\* the column's constraint by the one the command stands for.
C37_CmdNeverPanics ==
    /\ [](~ypanic)
    /\ [][\A idx \in FlatCols, cmd \in FlatCmds :
             YCmd(idx, cmd) =>
                IF idx < Len(ycols)
                THEN ycols' = [ycols EXCEPT ![idx + 1].con =
                                   FlatConstraint(ycols[idx + 1], cmd)]
                ELSE ycols' = ycols]_vars

\* ===================================================================
\* History and Prompt (shell/prompt.rs)
\* ===================================================================

\* the lines in play: "", "a", "aa", ...
Line(n) == [i \in 1..n |-> "a"]
Lines == {Line(n) : n \in 0..MaxLine}

\* `self.buf.iter().position(|it| it == &item)` and `self.buf.remove(pos)`
Without(buf, item) == SelectSeq(buf, LAMBDA it : it # item)

\* `if self.buf.len() == N { self.buf.pop(); }`
Popped(buf, n) ==
    IF Len(buf) = n /\ buf # << >> THEN SubSeq(buf, 1, Len(buf) - 1) ELSE buf

\* History::push
hpush(buf, n, item) == << item >> \o Popped(Without(buf, item), n)

\* no two equal items
Distinct(buf) == \A i, j \in 1..Len(buf) : buf[i] = buf[j] => i = j

promptRest == << streamVars, loaderVars, taskVars, duckVars, storeVars,
        iterVars, nativeVars, eventVars, sizerVars, flatVars,
        gridVars >>

\* History::new, for any capacity
HistoryInit ==
    /\ pN \in 0..MaxHist
    /\ phist = << >>
    /\ ppos = -1 /\ pbuf = << >> /\ pins = 0 /\ pbefore = -2
    /\ ppanic = FALSE
    /\ StreamIdle
    /\ LoaderIdle
    /\ TaskIdle
    /\ DuckIdle
    /\ StoreIdle
    /\ IterIdle
    /\ NativeIdle
    /\ EventIdle
    /\ SizerIdle
    /\ FlatIdle
    /\ GridIdle

\* History::push of any item
HPush(item) ==
    /\ phist' = hpush(phist, pN, item)
    /\ UNCHANGED << promptRest, pN, ppos, pbuf, pins, pbefore, ppanic >>

HistoryNext == \E item \in Lines : HPush(item)

HistorySpec == HistoryInit /\ [][HistoryNext]_vars

\* C38: after any pushes a History of capacity N holds at most N items, for
\* every N including 0, holds no two equal items, and its index 0 is the
\* item pushed last.
C38_HistoryBounded ==
    /\ [](Len(phist) <= pN /\ Distinct(phist))
    /\ [][\A item \in Lines : HPush(item) => phist'[1] = item]_vars

\* faulty variant: Prev steps back without looking at the history's length
PrevPos_unbounded(p, n) == p + 1

\* PromptCmd::Prev: the position after it (-1 for None)
PrevPos(p, n) ==
    IF p >= 0 /\ p + 1 < n THEN p + 1
    ELSE IF p = -1 /\ n > 0 THEN 0
    ELSE p

\* PromptCmd::Next: the position after it
NextPos(p) ==
    IF p = 0 THEN -1
    ELSE IF p > 0 THEN p - 1
    ELSE p

\* Prompt::new(init): a blank init is not pushed
PromptInit ==
    /\ pN \in 0..MaxHist
    /\ \E init \in Lines :
          /\ phist = IF init = << >> THEN << >> ELSE hpush(<< >>, pN, init)
          /\ pbuf = init
          /\ pins = Len(init)
    /\ ppos = -1
    /\ pbefore = -2
    /\ ppanic = FALSE
    /\ StreamIdle
    /\ LoaderIdle
    /\ TaskIdle
    /\ DuckIdle
    /\ StoreIdle
    /\ IterIdle
    /\ NativeIdle
    /\ EventIdle
    /\ SizerIdle
    /\ FlatIdle
    /\ GridIdle

\* History::get(pos) panics when pos is not an index of the buffer
GetPanics == ppos >= Len(phist)

\* Prompt::solidify, then an edit of the buffer: the buffer to edit and its
\* insertion point once the history item under pos has been copied into it
Solid == IF ppos >= 0 THEN phist[ppos + 1] ELSE pbuf
SolidIns == IF ppos >= 0 THEN Len(phist[ppos + 1]) ELSE pins

\* PromptCmd::Write, Left, Right, Delete
PEdit(cmd) ==
    /\ ~ppanic
    /\ IF GetPanics
       THEN ppanic' = TRUE /\ UNCHANGED << ppos, pbuf, pins >>
       ELSE /\ ppos' = -1
            /\ UNCHANGED ppanic
            /\ CASE cmd = "Write" ->
                      /\ Len(Solid) < MaxLine
                      /\ pbuf' = Append(Solid, "a")
                      /\ pins' = SolidIns + 1
                 [] cmd = "Left" ->
                      /\ pbuf' = Solid
                      /\ pins' = IF SolidIns > 0 THEN SolidIns - 1 ELSE 0
                 [] cmd = "Right" ->
                      /\ pbuf' = Solid
                      /\ pins' = IF SolidIns < Len(Solid) THEN SolidIns + 1
                                 ELSE SolidIns
                 [] cmd = "Delete" ->
                      /\ pbuf' = IF SolidIns > 0
                                 THEN SubSeq(Solid, 1, Len(Solid) - 1)
                                 ELSE Solid
                      /\ pins' = IF SolidIns > 0 THEN SolidIns - 1 ELSE 0
    /\ pbefore' = -2
    /\ UNCHANGED << promptRest, pN, phist >>

\* PromptCmd::Prev
PPrev ==
    /\ ~ppanic
    /\ ppos' = PrevPos(ppos, Len(phist))
    /\ pbefore' = IF ppos' # ppos THEN ppos ELSE -2
    /\ UNCHANGED << promptRest, pN, phist, pbuf, pins, ppanic >>

\* PromptCmd::Next
PNext ==
    /\ ~ppanic
    /\ ppos' = NextPos(ppos)
    /\ pbefore' = -2
    /\ UNCHANGED << promptRest, pN, phist, pbuf, pins, ppanic >>

\* PromptCmd::New(keep): state() is pushed, the buffer is cleared
PNew(keep) ==
    /\ ~ppanic
    /\ IF GetPanics
       THEN ppanic' = TRUE /\ UNCHANGED << phist, ppos, pbuf, pins >>
       ELSE /\ phist' = hpush(phist, pN, Solid)
            /\ ppos' = IF keep THEN 0 ELSE -1
            /\ pbuf' = << >>
            /\ pins' = 0
            /\ UNCHANGED ppanic
    /\ pbefore' = -2
    /\ UNCHANGED << promptRest, pN >>

PromptNext ==
    \/ \E cmd \in {"Write", "Left", "Right", "Delete"} : PEdit(cmd)
    \/ PPrev
    \/ PNext
    \/ \E keep \in BOOLEAN : PNew(keep)

PromptSpec == PromptInit /\ [][PromptNext]_vars

\* C39: after any commands the history position is None or an index of the
\* history, so state() and solidify() never read out of bounds; and a Next
\* right after a Prev that moved the position puts it back where it was.
C39_PositionInHistory ==
    /\ [](ppos = -1 \/ (ppos >= 0 /\ ppos < Len(phist)))
    /\ [](~ppanic)
    /\ [][(PNext /\ pbefore # -2) => ppos' = pbefore]_vars

\* the position had been stepped back twice through a history of three
\* lines, and Next has brought it from the third line back to the second
C39_Witness ==
    /\ Len(phist) = 3
    /\ ppos = 1
    /\ pbefore = -2
    /\ pbuf = << >>
    /\ pN = 3

\* ===================================================================
\* Projection (grid/projection.rs)
\* ===================================================================

ProjCmds == {"Hide", "Left", "Right"}

\* faulty variant: every column is appended again, the ones held included
set_nb_cols_all(cols, old, nb) ==
    SelectSeq(cols, LAMBDA n : n < nb) \o [i \in 1..nb |-> i - 1]

\* Projection::set_nb_cols: retain the columns below nb_col, then extend with
\* self.nb_col..nb_col
set_nb_cols(cols, old, nb) ==
    SelectSeq(cols, LAMBDA n : n < nb)
       \o [i \in 1..(IF nb > old THEN nb - old ELSE 0) |-> old + i - 1]

\* Vec::swap(a, b), offsets from 0
Swap(cols, a, b) ==
    [i \in 1..Len(cols) |-> IF i = a + 1 THEN cols[b + 1]
                            ELSE IF i = b + 1 THEN cols[a + 1]
                            ELSE cols[i]]

\* Vec::remove(off)
Remove(cols, off) == SubSeq(cols, 1, off) \o SubSeq(cols, off + 2, Len(cols))

\* Projection::cmd gets past its guard and indexes beyond the list
CmdPanics(cols, off) == cols # << >> /\ off >= Len(cols)

\* Projection::cmd, when it does not panic
proj_cmd(cols, off, cmd) ==
    IF cols = << >> THEN cols
    ELSE CASE cmd = "Hide" -> Remove(cols, off)
           [] cmd = "Left" -> Swap(cols, off, IF off > 0 THEN off - 1 ELSE 0)
           [] cmd = "Right" -> Swap(cols, off, Min(off + 1, Len(cols) - 1))

\* Projection::reset
proj_reset(nb) == [i \in 1..nb |-> i - 1]

gridRest == << streamVars, loaderVars, taskVars, duckVars, storeVars,
        iterVars, nativeVars, eventVars, sizerVars, flatVars, promptVars >>

navVars == << c_col, o_col, m_col, v_col, c_row, o_row, m_row, v_row, gstate,
        gret, gidx >>

\* Projection::new
ProjInit ==
    /\ GridIdle
    /\ StreamIdle
    /\ LoaderIdle
    /\ TaskIdle
    /\ DuckIdle
    /\ StoreIdle
    /\ IterIdle
    /\ NativeIdle
    /\ EventIdle
    /\ SizerIdle
    /\ FlatIdle
    /\ PromptIdle

JSetNbCols(nb) ==
    /\ ~gpanic
    /\ gcols' = set_nb_cols(gcols, gnb, nb)
    /\ gnb' = nb
    /\ UNCHANGED << gridRest, navVars, gpanic >>

JCmd(off, cmd) ==
    /\ ~gpanic
    /\ IF CmdPanics(gcols, off)
       THEN gpanic' = TRUE /\ UNCHANGED gcols
       ELSE gcols' = proj_cmd(gcols, off, cmd) /\ UNCHANGED gpanic
    /\ UNCHANGED << gridRest, navVars, gnb >>

JReset ==
    /\ ~gpanic
    /\ gcols' = proj_reset(gnb)
    /\ UNCHANGED << gridRest, navVars, gnb, gpanic >>

ProjNext ==
    \/ \E nb \in 0..MaxCols : JSetNbCols(nb)
    \/ \E off \in 0..MaxCols, cmd \in ProjCmds : JCmd(off, cmd)
    \/ JReset

ProjSpec == ProjInit /\ [][ProjNext]_vars

\* the columns a list holds
Held_cols(cols) == {cols[i] : i \in 1..Len(cols)}

\* C34: the visible list always holds pairwise distinct column indexes, all
\* below the column count; Left and Right only permute it, and Hide removes
\* exactly one entry, the one at the offset.
C34_VisibleListWellFormed ==
    /\ [](Distinct(gcols) /\ \A i \in 1..Len(gcols) : gcols[i] < gnb)
    /\ [][\A off \in 0..MaxCols, cmd \in ProjCmds :
             (JCmd(off, cmd) /\ ~gpanic' /\ gcols # << >>) =>
                IF cmd = "Hide"
                THEN /\ Len(gcols') = Len(gcols) - 1
                     /\ Held_cols(gcols') = Held_cols(gcols) \ {gcols[off + 1]}
                ELSE /\ Len(gcols') = Len(gcols)
                     /\ Held_cols(gcols') = Held_cols(gcols)]_vars

\* a column was hidden, two were swapped, and the column count shrank and
\* grew again
C34_Witness ==
    /\ gnb = 4
    /\ gcols = << 1, 0, 3 >>
    /\ ~gpanic

\* ===================================================================
\* Nav, rows (grid/nav.rs) and the rows FrameGrid::draw shows
\* ===================================================================

\* the cursor and the offset are capped here; the code lets them grow to
\* usize::MAX
NavCap == MaxRows + 2

SatSub(a, b) == IF a > b THEN a - b ELSE 0

colVars == << gcols, gnb, c_col, o_col, m_col, v_col, gstate, gidx >>

\* Nav::row_offset: the fields it leaves, as << c_row, o_row >>
row_offset(c, o, nb_row, v) ==
    LET m == SatSub(nb_row, 1)
        c1 == Min(c, m)
    IN  << c1, IF c1 < o THEN c1
               ELSE IF c1 >= o + v THEN c1 - v + 1
               ELSE o >>

\* Nav::new
RowInit == ProjInit

\* Nav::up, Nav::down
RMove(d) ==
    /\ ~gpanic
    /\ c_row' = (IF d = "up" THEN SatSub(c_row, 1) ELSE c_row + 1)
    /\ c_row' <= NavCap
    /\ UNCHANGED << gridRest, colVars, o_row, m_row, v_row, gret, gpanic >>

\* Nav::top, Nav::btm
RJump(d) ==
    /\ ~gpanic
    /\ c_row' = (IF d = "top" THEN 0 ELSE m_row)
    /\ UNCHANGED << gridRest, colVars, o_row, m_row, v_row, gret, gpanic >>

\* Nav::win_up, Nav::win_down
RWin(d) ==
    /\ ~gpanic
    /\ o_row' = (IF d = "up" THEN SatSub(o_row, v_row) ELSE o_row + v_row)
    /\ c_row' = (IF d = "up" THEN o_row' ELSE o_row' + SatSub(v_row, 1))
    /\ o_row' <= NavCap
    /\ c_row' <= NavCap
    /\ UNCHANGED << gridRest, colVars, m_row, v_row, gret, gpanic >>

\* FrameGrid::draw, its rows: row_offset(nb_row, v_row), then the loop over
\* 0..v_row.min(nb_row - row_off), whose subtraction panics when overflow
\* checks are compiled in and wraps when they are not
RDraw(nb_row, v, checks) ==
    /\ ~gpanic
    /\ v_row' = v
    /\ m_row' = SatSub(nb_row, 1)
    /\ c_row' = row_offset(c_row, o_row, nb_row, v)[1]
    /\ o_row' = row_offset(c_row, o_row, nb_row, v)[2]
    /\ gret' = o_row'
    /\ gpanic' = (checks /\ gret' > nb_row)
    /\ UNCHANGED << gridRest, colVars >>

RowNext ==
    \/ \E d \in {"up", "down"} : RMove(d)
    \/ \E d \in {"top", "btm"} : RJump(d)
    \/ \E d \in {"up", "down"} : RWin(d)
    \/ \E nb_row \in 0..MaxRows, v \in 0..MaxRows, checks \in BOOLEAN :
          RDraw(nb_row, v, checks)

RowSpec == RowInit /\ [][RowNext]_vars

\* C32: after row_offset(nb_row, v_row), for every nb_row and every v_row,
\* 0 included, the cursor fits the grid, the offset returned is at most the
\* cursor row and at most nb_row, the cursor is inside the view when the view
\* has rows, and draw's subtractions do not underflow.
C32_RowOffsetInRange ==
    /\ [][\A nb_row \in 0..MaxRows, v \in 0..MaxRows, checks \in BOOLEAN :
             RDraw(nb_row, v, checks) =>
                /\ c_row' <= SatSub(nb_row, 1)
                /\ gret' <= c_row'
                /\ gret' <= nb_row
                /\ (v > 0 => c_row' < gret' + v)]_vars
    /\ [](~gpanic)

\* ===================================================================
\* FrameGrid (grid/frame_grid.rs): keys and draws over Nav's columns and
\* the Projection
\* ===================================================================

\* the cursor and the offset are capped here; the code lets them grow to
\* usize::MAX
ColCap == GridCols + 1

\* the keys on_key tells apart, less those that only move the cursor row
GridKeys(st) ==
    CASE st = "Normal" ->
            {"s", "p", "left", "right", "shift_left", "shift_right"}
      [] st = "Projection" ->
            {"esc", "left", "right", "shift_left", "shift_right",
             "shift_down", "shift_up"}
      [] st = "Size" -> {"esc", "r", "left", "right", "down", "up"}

\* the keys that reach Projection::cmd and Sizer::cmd
ProjCmdOf(key) ==
    CASE key = "shift_left" -> "Left"
      [] key = "shift_right" -> "Right"
      [] key = "shift_down" -> "Hide"
      [] OTHER -> "none"

SizeCmdKeys == {"left", "right", "down", "up"}

\* the closure of Nav::col_iter called n more times from step `step` with
\* the offset o: << what it yields, the offset it leaves >>
RECURSIVE col_iter(_, _, _, _, _, _)
col_iter(step, n, o, c, goal_left, amount_right) ==
    IF n = 0 THEN << << >>, o >>
    ELSE LET result ==
                 IF step <= goal_left THEN c - step
                 ELSE IF step < goal_left + amount_right
                      THEN c + (step - goal_left)
                      ELSE c - (step - goal_left - amount_right)
             o1 == IF result < o THEN result
                   ELSE IF result > o + step THEN result - step
                   ELSE o
             rest == col_iter(step + 1, n - 1, o1, c, goal_left, amount_right)
         IN  << << result >> \o rest[1], rest[2] >>

\* FrameGrid::new
GridInit == ProjInit

\* FrameGrid::on_key
GKey(key) ==
    /\ ~gpanic
    /\ key \in GridKeys(gstate)
    /\ LET idx == c_col
           pcmd == ProjCmdOf(key)
           inProj == gstate = "Projection"
       IN  /\ gstate' = CASE gstate = "Normal" /\ key = "s" -> "Size"
                          [] gstate = "Normal" /\ key = "p" -> "Projection"
                          [] inProj /\ key = "esc" -> "Normal"
                          [] gstate = "Size" /\ key \in {"esc", "r", "down", "up"}
                                -> "Normal"
                          [] OTHER -> gstate
           /\ IF inProj /\ pcmd # "none" /\ CmdPanics(gcols, idx)
              THEN /\ gpanic' = TRUE
                   /\ UNCHANGED << gcols, c_col, o_col >>
              ELSE /\ UNCHANGED gpanic
                   /\ gcols' = IF inProj /\ pcmd # "none"
                               THEN proj_cmd(gcols, idx, pcmd)
                               ELSE IF inProj /\ key = "shift_up"
                               THEN proj_reset(gnb)
                               ELSE gcols
                   /\ o_col' = IF gstate = "Normal" /\ key = "shift_left"
                               THEN SatSub(o_col, v_col)
                               ELSE IF gstate = "Normal" /\ key = "shift_right"
                               THEN o_col + v_col
                               ELSE o_col
                   /\ c_col' = IF gstate = "Normal" /\ key = "shift_left"
                               THEN o_col'
                               ELSE IF gstate = "Normal" /\ key = "shift_right"
                               THEN o_col' + SatSub(v_col, 1)
                               ELSE IF gstate = "Size" THEN c_col
                               ELSE IF key \in {"left", "shift_left"}
                               THEN SatSub(c_col, 1)
                               ELSE IF key \in {"right", "shift_right"}
                               THEN c_col + 1
                               ELSE c_col
                   /\ c_col' <= ColCap
                   /\ o_col' <= ColCap
           /\ gidx' = IF gstate = "Size" /\ key \in SizeCmdKeys THEN idx
                      ELSE gidx
    /\ UNCHANGED << gridRest, gnb, m_col, v_col, c_row, o_row, m_row, v_row,
                    gret >>

\* what the loop of FrameGrid::draw gets from Nav::col_iter for a frame of
\* nb_col columns on a canvas with room for `fit` of them:
\* << what the iterator yielded, the offset it left >>
DrawIter(nb_col, fit) ==
    LET visible_cols == Len(set_nb_cols(gcols, gnb, nb_col))
        c == Min(c_col, SatSub(visible_cols, 1))
        o == IF c < o_col THEN c ELSE o_col
    IN  col_iter(0, Min(fit, visible_cols), o, c, SatSub(c, o),
                 visible_cols - c)

\* the index FrameGrid::draw hands to df.col_name for the GridUI
ColNameIdx == c_col

\* FrameGrid::draw of a frame of nb_col columns and MaxRows rows on a canvas
\* that has room for MaxRows rows and for `fit` columns
GDraw(nb_col, fit) ==
    /\ ~gpanic
    /\ gcols' = set_nb_cols(gcols, gnb, nb_col)
    /\ gnb' = nb_col
    /\ v_row' = MaxRows
    /\ m_row' = SatSub(MaxRows, 1)
    /\ c_row' = row_offset(c_row, o_row, MaxRows, MaxRows)[1]
    /\ o_row' = row_offset(c_row, o_row, MaxRows, MaxRows)[2]
    /\ gret' = o_row'
    /\ LET visible_cols == Len(gcols')
           it == DrawIter(nb_col, fit)
       IN  /\ m_col' = SatSub(visible_cols, 1)
           /\ c_col' = Min(c_col, m_col')
           /\ o_col' = it[2]
           /\ v_col' = Len(it[1])
           /\ gpanic' = \E i \in 1..Len(it[1]) : it[1][i] >= visible_cols
    /\ UNCHANGED << gridRest, gstate, gidx >>

GridNext ==
    \/ \E key \in GridKeys("Normal") \cup GridKeys("Projection")
                \cup GridKeys("Size") : GKey(key)
    \/ \E nb_col \in 0..GridCols, fit \in 0..GridCols : GDraw(nb_col, fit)

GridSpec == GridInit /\ [][GridNext]_vars

\* C31: for every nb_col and every reachable cursor and offset, the iterator
\* of col_iter(nb_col), consumed to its end, yields each offset of 0..nb_col
\* exactly once.
C31_ColIterYieldsEachOnce ==
    [][\A nb_col \in 0..GridCols, fit \in 0..GridCols :
          (GDraw(nb_col, fit) /\ fit >= Len(gcols')) =>
             LET yielded == DrawIter(nb_col, fit)[1]
             IN  /\ Len(yielded) = Len(gcols')
                 /\ \A off \in 0..(Len(gcols') - 1) :
                       Cardinality({i \in 1..Len(yielded) : yielded[i] = off}) = 1]_vars

\* C33: whatever keys and draws a FrameGrid gets, several keys between two
\* draws included, Projection::cmd is only called with an offset below the
\* number of visible columns, and hiding or moving a column never indexes
\* out of bounds.
C33_CmdOffsetInBounds ==
    /\ [][\A key \in GridKeys("Projection") :
             (GKey(key) /\ gstate = "Projection" /\ ProjCmdOf(key) # "none"
                 /\ gcols # << >>) => c_col < Len(gcols)]_vars
    /\ [](~gpanic)

\* C35: Sizer::cmd in Size mode and the col_name a draw reports use the
\* projected column index of the cursor offset, the index draw uses for
\* Sizer::size and for the header.
C35_CursorActionsUseProjectedIndex ==
    [][/\ \A key \in SizeCmdKeys :
             (GKey(key) /\ gstate = "Size" /\ c_col < Len(gcols)) =>
                gidx' = gcols[c_col + 1]
       /\ \A nb_col \in 0..GridCols, fit \in 0..GridCols :
             (GDraw(nb_col, fit) /\ Len(gcols') > 0) =>
                ColNameIdx' = gcols'[c_col' + 1]]_vars

====
